---- MODULE Spec2Model ----
(***************************************************************************)
(* Clawmasutra orchestration core: the message bus (router), the agent     *)
(* runtime's turn bookkeeping, the orchestrator's session lifecycle and    *)
(* topology loops, and the position_* tool handlers that drive them.       *)
(*                                                                         *)
(* Granularity: one action per handler, or per segment of an async         *)
(* function between two awaits.  The only suspension points of a topology  *)
(* loop are the awaited executeTurn promises, so a loop segment runs from  *)
(* the return (or throw) of the last awaited turn up to the start of the   *)
(* next awaited turn(s).                                                   *)
(***************************************************************************)
EXTENDS Integers, Sequences, FiniteSets, TLC

\* ------------------------------------------------------------------------
\* Bounds of the model (not program constants)
\* ------------------------------------------------------------------------
MaxTime == 2
MaxStops == 2
MaxSends == 1
MaxBusOps == 2
MaxMessagesPerSession == 2
MaxCompletes == 2
MaxInvocations == 2
MaxEvents == 2
MaxToolTurns == 1

\* ------------------------------------------------------------------------
\* Program constants
\* ------------------------------------------------------------------------
SoloMaxTurns == 20
DuetMaxTurns == 15
GroupMaxTurns == 20
PyramidMaxTurns == 25

POSITIONS ==
  [ contemplator     |-> [name |-> "contemplator",   agents |-> 1, category |-> "solo"],
    wanderer         |-> [name |-> "wanderer",       agents |-> 1, category |-> "solo"],
    mirror           |-> [name |-> "mirror",         agents |-> 2, category |-> "duet"],
    relay            |-> [name |-> "relay",          agents |-> 2, category |-> "duet"],
    dance            |-> [name |-> "dance",          agents |-> 2, category |-> "duet"],
    embrace          |-> [name |-> "embrace",        agents |-> 2, category |-> "duet"],
    circle           |-> [name |-> "circle",         agents |-> 3, category |-> "group"],
    pyramid          |-> [name |-> "pyramid",        agents |-> 4, category |-> "group"],
    swarm            |-> [name |-> "swarm",          agents |-> 5, category |-> "group"],
    tantric          |-> [name |-> "tantric",        agents |-> 3, category |-> "group"],
    arbitrageur      |-> [name |-> "arbitrageur",    agents |-> 2, category |-> "crypto"],
    oracle_choir     |-> [name |-> "oracle-choir",   agents |-> 3, category |-> "crypto"],
    liquidity_lotus  |-> [name |-> "liquidity-lotus", agents |-> 2, category |-> "crypto"],
    dao_dance        |-> [name |-> "dao-dance",      agents |-> 3, category |-> "crypto"],
    pattern_doctor   |-> [name |-> "pattern-doctor", agents |-> 1, category |-> "healing"],
    recovery         |-> [name |-> "recovery",       agents |-> 1, category |-> "healing"] ]

TerminalStatuses == {"completed", "error", "timeout", "stopped"}

\* extractCommunicationProtocol(): the default types, which it yields when
\* the skill text declares none in a form it recognises.
DefaultProtocolTypes == {"READY_TO_SHARE", "RESULTS", "ACKNOWLEDGE", "COMPLETE"}

\* The vocabulary extractCommunicationProtocol yields for each position's
\* SKILL.md.  pattern-doctor lists its types as bullets; the other skill
\* texts have no bullet or `TYPE:` line in that section, or no such section.
CommunicationProtocol(key) ==
  IF key = "pattern_doctor" THEN {"READY_TO_SHARE", "RESULTS", "DISCREPANCY"}
  ELSE DefaultProtocolTypes

\* ------------------------------------------------------------------------
\* Inputs
\* ------------------------------------------------------------------------
\* Session ids are `${position.name}-${Date.now()}-${random}`; the model
\* names them by tokens and creates a session only under an unused token.
SessionIds == {"s1", "s2"}
LifecycleIds == {"s1"}
UnknownIds == {"nonexistent-456"}

\* position_invoke, demo mode: `${positionName}-demo-${Date.now()}`
DemoSessionId(key, t) == POSITIONS[key].name \o "-demo-" \o ToString(t)

Lookup(positionName) ==
  IF positionName \in DOMAIN POSITIONS THEN "position"
  ELSE IF positionName \in ({"constructor", "toString", "valueOf", "hasOwnProperty",
          "__proto__"}) THEN "inherited"
  ELSE "undefined"

\* A SKILL.md as the skill loader meets it: whether the file exists, and
\* what extractAgents finds in its Agents section: a table ("table": at
\* least a header and a separator row, `agents` being the roles of the rows
\* below them that have three cells), "### " subsections ("subsections"),
\* or neither ("none").
SkillFile(roster) == [exists |-> TRUE, kind |-> "table", agents |-> roster]
\* generateGenericAgents(): the role names of the built-in roster.
GenerateGenericAgents(key) ==
  CASE key = "contemplator"    -> <<"Contemplator">>
    [] key = "wanderer"        -> <<"Wanderer">>
    [] key = "mirror"          -> <<"Reflector", "Verifier">>
    [] key = "relay"           -> <<"Researcher", "Executor">>
    [] key = "dance"           -> <<"Leader", "Partner">>
    [] key = "embrace"         -> <<"Guardian", "Operator">>
    [] key = "circle"          -> <<"Voice-1", "Voice-2", "Voice-3">>
    [] key = "pyramid"         -> <<"Oracle", "Worker-1", "Worker-2", "Worker-3">>
    [] key = "swarm"           -> <<"Scout-1", "Scout-2", "Scout-3", "Scout-4", "Scout-5">>
    [] key = "tantric"         -> <<"Breath-1", "Breath-2", "Breath-3">>
    [] key = "arbitrageur"     -> <<"Spotter", "Executor">>
    [] key = "oracle_choir"    -> <<"Voice-A", "Voice-B", "Voice-C">>
    [] key = "liquidity_lotus" -> <<"Strategist", "Executor">>
    [] key = "dao_dance"       -> <<"Researcher", "Strategist", "Voter">>
    [] key = "pattern_doctor"  -> <<"Doctor">>
    [] key = "recovery"        -> <<"Healer">>
    [] OTHER                   -> <<"Agent">>

\* extractAgents()
ExtractAgents(file, key) ==
  IF file.kind = "table" THEN file.agents
  ELSE IF file.kind = "subsections" /\ file.agents # << >> THEN file.agents
  ELSE GenerateGenericAgents(key)

VARIABLES
  now,            \* Date.now(), in seconds
  hasOrch,        \* ORCHESTRATOR_AVAILABLE && hasOrchestrator()
  sessions,       \* Orchestrator.sessions: id -> Session
  legacySessions, \* position-invoke.ts legacySessions: id -> LegacySessionState
  activeAgents,   \* AgentRuntime.activeAgents (key set)
  agents,         \* the Agent objects, each with the locals of its turn in flight
  messages,       \* MessageBus.messages: sessionId -> history
  pendingByAgent, \* MessageBus.pendingByAgent: agentId -> queue
  nextMsg,        \* number of messages the bus has built so far
  notified,       \* message ids handed to the bus subscriber, in order
  loop,           \* position of each session's runSession promise
  inflight,       \* per session: agents with an executeTurn in flight
  turnInput,      \* per agent: ids of the messages put in its latest prompt
  lifecycle,      \* per session: status of each lifecycle event emitted
  caught,         \* per session: times the runSession().catch handler ran
  stopReports,    \* per id: the status each position_stop call reported
  sendCalls,      \* sessions_send calls made
  busOps,         \* direct router calls made
  lastCall,       \* the latest handler call and what it returned
  eventStore,     \* gallery-stream.ts eventStore: the stored events, in order
  state           \* ton-wallet.ts state: the connected wallet, or none

vars == <<now, hasOrch, sessions, legacySessions, activeAgents, agents,
          messages, pendingByAgent, nextMsg, notified, loop, inflight,
          turnInput, lifecycle, caught, stopReports, sendCalls, busOps, lastCall,
          eventStore, state>>

\* ------------------------------------------------------------------------
\* Maps
\* ------------------------------------------------------------------------
Put(f, k, v) == (k :> v) @@ f
Del(f, k) == [x \in (DOMAIN f) \ {k} |-> f[x]]
Get(f, k, d) == IF k \in DOMAIN f THEN f[k] ELSE d
Range(s) == {s[i] : i \in DOMAIN s}

\* ------------------------------------------------------------------------
\* MessageBus
\* ------------------------------------------------------------------------
\* Variant: the oldest entries are the ones kept.
TrimmedKeepsOldest(history) ==
  IF Len(history) > MaxMessagesPerSession
  THEN SubSeq(history, 1, MaxMessagesPerSession)
  ELSE history

\* addToSessionHistory(): the trim; maxMessagesPerSession is the constructor
\* argument (1000 by default), here MaxMessagesPerSession.
Trimmed(history) ==
  IF Len(history) > MaxMessagesPerSession
  THEN SubSeq(history, Len(history) - MaxMessagesPerSession + 1, Len(history))
  ELSE history

AddToSessionHistory(msgs, m) ==
  Put(msgs, m.sessionId, Trimmed(Append(Get(msgs, m.sessionId, << >>), m)))

\* Variant: the message is put at the head of the queue.
AddToPendingFront(pend, agentId, m) ==
  Put(pend, agentId, <<m>> \o Get(pend, agentId, << >>))

AddToPending(pend, agentId, m) ==
  Put(pend, agentId, Append(Get(pend, agentId, << >>), m))

\* The body of broadcastInSession is empty: it enqueues nothing.
BroadcastInSession(pend, m) == pend

\* send(): the bus state after the call; `n` is the id the message gets.
\* A message to "orchestrator" is handed to the subscribers twice.
BusSendState(bus, msg, n) ==
  LET full == [id |-> n, from |-> msg.from, to |-> msg.to,
               sessionId |-> msg.sessionId, type |-> msg.type,
               content |-> msg.content]
  IN [ messages |-> AddToSessionHistory(bus.messages, full),
       pending  |-> IF msg.to = "all" THEN BroadcastInSession(bus.pending, full)
                    ELSE IF msg.to = "orchestrator" THEN bus.pending
                    ELSE AddToPending(bus.pending, msg.to, full),
       notified |-> IF msg.to = "orchestrator"
                    THEN bus.notified \o <<n, n>>
                    ELSE Append(bus.notified, n) ]

\* receive(): what it returns, and the queue map it leaves.
ReceiveResult(pend, agentId) == Get(pend, agentId, << >>)

\* Variant: the queue is left as it was.
ReceiveStateKeepsQueue(pend, agentId) == pend

ReceiveState(pend, agentId) == Put(pend, agentId, << >>)

GetSessionHistory(msgs, sessionId, limit) ==
  LET history == Get(msgs, sessionId, << >>)
  IN IF limit > 0 /\ limit < Len(history)
     THEN SubSeq(history, Len(history) - limit + 1, Len(history))
     ELSE history

\* Variant: a queue that holds a message of the session is dropped whole.
ClearSessionPendingWholeQueue(pend, sessionId) ==
  LET touched(a) == \E i \in DOMAIN pend[a] : pend[a][i].sessionId = sessionId
      kept == {a \in DOMAIN pend : ~touched(a) /\ pend[a] # << >>}
  IN [a \in kept |-> pend[a]]

\* clearSession(): the pending queues it leaves
ClearSessionPending(pend, sessionId) ==
  LET remaining(a) == SelectSeq(pend[a], LAMBDA m : m.sessionId # sessionId)
      kept == {a \in DOMAIN pend : remaining(a) # << >>}
  IN [a \in kept |-> remaining(a)]

ClearSessionMessages(msgs, sessionId) == Del(msgs, sessionId)

IsValidMessageType(type) == type \in ({"READY_TO_SHARE", "RESULTS", "ACKNOWLEDGE", "DISCREPANCY",
        "CONSENSUS", "ESCALATE", "INSTRUCTION", "QUERY", "RESPONSE", "PYRAMID_ASSIGN",
        "PYRAMID_REPORT", "STATUS_UPDATE", "COMPLETE"})

\* Variant: the type is not looked at.
ValidateMessageAnyType(m) ==
  IF m.from = "" THEN "from is required and must be a string"
  ELSE IF m.to = "" THEN "to is required and must be a string"
  ELSE IF m.sessionId = "" THEN "sessionId is required and must be a string"
  ELSE IF m.content = "undefined" THEN "content is required"
  ELSE "valid"

\* validateMessage(): "" stands for a missing (falsy) field and "undefined"
\* for a content that is undefined.
ValidateMessage(m) ==
  IF m.from = "" THEN "from is required and must be a string"
  ELSE IF m.to = "" THEN "to is required and must be a string"
  ELSE IF m.sessionId = "" THEN "sessionId is required and must be a string"
  ELSE IF m.type = "" \/ ~IsValidMessageType(m.type) THEN "type must be one of"
  ELSE IF m.content = "undefined" THEN "content is required"
  ELSE "valid"

\* ------------------------------------------------------------------------
\* AgentRuntime
\* ------------------------------------------------------------------------
\* create(): `agent-${session.id}-${role}-${agentIndex}`, agentIndex from 0
AgentId(sessionId, role, agentIndex) ==
  "agent-" \o sessionId \o "-" \o ([Contemplator |-> "contemplator", Reflector |-> "reflector",
          Verifier |-> "verifier", Oracle |-> "oracle", Wanderer |-> "wanderer",
          Researcher |-> "researcher", Executor |-> "executor", Leader |-> "leader",
          Partner |-> "partner", Guardian |-> "guardian", Operator |-> "operator",
          Spotter |-> "spotter", Strategist |-> "strategist", Voter |-> "voter",
          Doctor |-> "doctor", Healer |-> "healer",
          Agent |-> "agent"] @@ ("Voice-1" :> "voice-1") @@ ("Voice-2" :> "voice-2")
                  @@ ("Voice-3" :> "voice-3") @@ ("Voice-A" :> "voice-a")
                  @@ ("Voice-B" :> "voice-b") @@ ("Voice-C" :> "voice-c")
                  @@ ("Worker-1" :> "worker-1") @@ ("Worker-2" :> "worker-2")
                  @@ ("Worker-3" :> "worker-3") @@ ("Scout-1" :> "scout-1")
                  @@ ("Scout-2" :> "scout-2") @@ ("Scout-3" :> "scout-3")
                  @@ ("Scout-4" :> "scout-4") @@ ("Scout-5" :> "scout-5")
                  @@ ("Breath-1" :> "breath-1") @@ ("Breath-2" :> "breath-2")
                  @@ ("Breath-3" :> "breath-3"))[role] \o "-" \o ToString(agentIndex)

\* `tools` and `invocations` belong to the agent's latest executeTurn: the
\* catalog it built, and the number of answers of the reasoning primitive to
\* which it reacted by calling a tool.
NewAgent(sessionId, role) ==
  [sessionId |-> sessionId, role |-> role, status |-> "idle", turnsCompleted |-> 0,
   tokensUsed |-> 0, tools |-> {}, invocations |-> 0, totalTokens |-> 0,
   toolCalls |-> << >>, toolResults |-> << >>, newToolCalls |-> << >>,
   continueLoop |-> TRUE, pendingMessages |-> << >>]

\* destroySession(): marks and forgets the session's agents that are still
\* registered; the Agent objects stay reachable from session.agents.
DestroySessionAgents(ag, active, sessionId) ==
  [a \in DOMAIN ag |->
     IF a \in active /\ ag[a].sessionId = sessionId
     THEN [ag[a] EXCEPT !.status = "completed"] ELSE ag[a]]

DestroySessionActive(ag, active, sessionId) ==
  {a \in active : ag[a].sessionId # sessionId}

\* ------------------------------------------------------------------------
\* Tools.  A tool name is the sequence of its "_"-separated segments, as
\* toolName.split("_") yields them; a registered prefix such as "ton_wallet_"
\* is the sequence of the segments before its trailing "_".
\* ------------------------------------------------------------------------
SessionsSendTool == <<"sessions", "send">>
SessionsListTool == <<"sessions", "list">>
SessionsHistoryTool == <<"sessions", "history">>
GalleryEmitTool == <<"gallery", "emit">>
TonWalletSend == <<"ton", "wallet", "send">>

\* The names handleAgentToolCall answers itself.
InterceptedTools ==
  {SessionsSendTool, SessionsListTool, SessionsHistoryTool, GalleryEmitTool}

GATED_TOOLS == {TonWalletSend}

\* getSessionForAgent(): the sessions it finds; its body is `return undefined`.
GetSessionForAgent(sessionId) == {}

\* buildToolDefinitions(): the names of the tools it defines.
\* `session?.config.allowTransactions || false` is true only for a session
\* that was found and whose config has the flag set.
BuildToolDefinitions(sessionId) ==
  LET allowTransactions ==
        \E session \in GetSessionForAgent(sessionId) : session.config.allowTransactions
  IN {SessionsSendTool, SessionsListTool, SessionsHistoryTool, GalleryEmitTool,
      <<"ton", "wallet", "balance">>, <<"ton", "wallet", "transactions">>,
      <<"ton", "contract", "get", "info">>, <<"ton", "contract", "call", "getter">>,
      <<"ton", "contract", "jetton", "info">>, <<"ton", "contract", "nft", "info">>}
     \cup (IF allowTransactions THEN GATED_TOOLS ELSE {})

\* Orchestrator.mcpToolHandlers after initializeOrchestrator: the keys
\* "ton_wallet_" and "ton_contract_".
McpToolHandlers == {<<"ton", "wallet">>, <<"ton", "contract">>}

\* toolName.split("_").slice(0, -1).join("_") + "_"
ToolPrefix(tool) == SubSeq(tool, 1, Len(tool) - 1)

\* How a registered handler may end: handleTonContractTool catches what its
\* body throws and answers with an error; handleTonWalletTool has no catch
\* around its address parsing and network calls.
HandlerOutcomes(tool) ==
  IF tool \in InterceptedTools THEN {"ok"}
  ELSE IF ToolPrefix(tool) = <<"ton", "wallet">> THEN {"ok", "error", "throw"}
  ELSE IF ToolPrefix(tool) = <<"ton", "contract">> THEN {"ok", "error"}
  ELSE {"ok"}

\* Variant: a name that reaches no handler makes the call throw.
HandleAgentToolCallThrows(tool, outcome) ==
  IF tool \in InterceptedTools
  THEN [handler |-> << >>, isError |-> FALSE, thrown |-> FALSE]
  ELSE IF ToolPrefix(tool) \in McpToolHandlers
  THEN [handler |-> ToolPrefix(tool), isError |-> outcome = "error",
        thrown |-> outcome = "throw"]
  ELSE [handler |-> << >>, isError |-> TRUE, thrown |-> TRUE]

\* handleAgentToolCall() for a tool other than sessions_send: the registered
\* handler it reaches (<< >> for none), and whether it answers with an error
\* result or throws.  `outcome` is how the handler it reaches ends.
HandleAgentToolCall(tool, outcome) ==
  IF tool \in InterceptedTools
  THEN [handler |-> << >>, isError |-> FALSE, thrown |-> FALSE]
  ELSE IF ToolPrefix(tool) \in McpToolHandlers
  THEN [handler |-> ToolPrefix(tool), isError |-> outcome = "error",
        thrown |-> outcome = "throw"]
  ELSE [handler |-> << >>, isError |-> TRUE, thrown |-> FALSE]

\* ------------------------------------------------------------------------
\* Orchestrator: sessions_send
\* ------------------------------------------------------------------------
RECURSIVE BroadcastSends(_, _, _, _)
BroadcastSends(bus, msg, recipients, n) ==
  IF recipients = << >> THEN bus
  ELSE IF Head(recipients) = msg.from
       THEN BroadcastSends(bus, msg, Tail(recipients), n)
       ELSE BroadcastSends(BusSendState(bus, [msg EXCEPT !.to = Head(recipients)], n + 1),
                           msg, Tail(recipients), n + 1)

BroadcastCount(msg, recipients) ==
  Cardinality({i \in DOMAIN recipients : recipients[i] # msg.from})

\* sessionsSend(): the result handed back and the bus state it leaves.
\* `n` is the number of messages built before the call.
SessionsSendError(sess, msg) ==
  IF msg.sessionId \notin DOMAIN sess THEN "Session not found"
  ELSE IF ValidateMessage(msg) # "valid" THEN ValidateMessage(msg)
  ELSE ""

SessionsSendState(sess, bus, msg, n) ==
  IF SessionsSendError(sess, msg) # "" THEN bus
  ELSE IF msg.to = "all"
       THEN BroadcastSends(bus, msg, sess[msg.sessionId].agents, n)
       ELSE BusSendState(bus, msg, n + 1)

SessionsSendBuilt(sess, msg) ==
  IF SessionsSendError(sess, msg) # "" THEN 0
  ELSE IF msg.to = "all" THEN BroadcastCount(msg, sess[msg.sessionId].agents)
  ELSE 1

\* ------------------------------------------------------------------------
\* Orchestrator: topology loops.  A loop segment maps a "world" (the part
\* of the state one session's loop touches) to the world at its next await.
\*   sess  the Session          lp    the loop's position
\*   infl  turns in flight      pend  MessageBus.pendingByAgent
\*   ag    the Agent objects    tin   latest prompt contents
\*   life  lifecycle events emitted for the session
\* Fields of lp: pc, turnCount (the loop's local), cursor (index of the
\* for-loop of the round-robin), awaiting (turns the pending await waits for),
\* phrase (awaited turns of the pending await whose response held a completion
\* signal), signalled (the same set, as it was at the latest join), overlapped
\* (agents for which executeTurn was invoked while a turn of theirs was in
\* flight).
\* ------------------------------------------------------------------------
MsgIds(ms) == [i \in DOMAIN ms |-> ms[i].id]

\* executeTurn() up to its first await
StartTurn(w, a, input) ==
  [w EXCEPT !.infl = @ \cup {a}, !.ag[a].status = "thinking", !.tin[a] = input,
            !.ag[a].tools = BuildToolDefinitions(w.ag[a].sessionId),
            !.ag[a].invocations = 0, !.ag[a].totalTokens = 0,
            !.ag[a].toolCalls = << >>, !.ag[a].toolResults = << >>,
            !.ag[a].newToolCalls = << >>, !.ag[a].continueLoop = TRUE,
            !.lp.overlapped = IF a \in w.infl THEN @ \cup {a} ELSE @]

\* buildTurnPrompt() / buildContinuationPrompt(), then executeTurn()
TakeTurn(w, a) ==
  StartTurn([w EXCEPT !.pend = ReceiveState(@, a)], a,
            MsgIds(ReceiveResult(w.pend, a)))

RECURSIVE TakeTurns(_, _)
TakeTurns(w, as) ==
  IF as = << >> THEN w ELSE TakeTurns(TakeTurn(w, Head(as)), Tail(as))

\* buildInitialPrompt(), then executeTurn()
RECURSIVE InitTurns(_, _)
InitTurns(w, as) ==
  IF as = << >> THEN w ELSE InitTurns(StartTurn(w, Head(as), << >>), Tail(as))

Await(w, pc, as) ==
  [w EXCEPT !.lp.pc = pc, !.lp.awaiting = Range(as), !.lp.phrase = {}]

CompleteSession(w, t) ==
  [w EXCEPT !.sess.status = "completed", !.sess.completedAt = t,
            !.life = Append(@, "completed")]

\* the async run*Session function returns
Exit(w) == [w EXCEPT !.lp.pc = "exited", !.lp.awaiting = {}, !.lp.phrase = {}]

Finish(w, t) == Exit(CompleteSession(w, t))

\* Variant: more COMPLETE messages than agents are asked for.
IsSessionCompleteStrict(w, history, phrase) ==
  \/ phrase
  \/ Cardinality({i \in DOMAIN history : history[i].type = "COMPLETE"})
       > Len(w.sess.agents)

IsSessionComplete(w, history, phrase) ==
  \/ phrase
  \/ Cardinality({i \in DOMAIN history : history[i].type = "COMPLETE"})
       >= Len(w.sess.agents)

\* Variant: the budget comparison is inclusive.
LoopGuardInclusive(w, maxTurns) ==
  w.sess.status = "running" /\ w.lp.turnCount <= maxTurns

LoopGuard(w, maxTurns) ==
  w.sess.status = "running" /\ w.lp.turnCount < maxTurns

NextRound(w) == [w EXCEPT !.lp.turnCount = @ + 1]

\* --- solo
SoloLoopHead(w, t) ==
  LET agent == w.sess.agents[1]
  IN IF LoopGuard(w, SoloMaxTurns)
     THEN Await(IF w.lp.turnCount = 0 THEN StartTurn(w, agent, << >>)
                ELSE TakeTurn(w, agent), "soloTurn", <<agent>>)
     ELSE Finish(w, t)

RunSoloSession(w, t) ==
  IF Len(w.sess.agents) = 0 THEN Exit(w) ELSE SoloLoopHead(w, t)

SoloAfterTurn(w, t, history, phrase) ==
  IF IsSessionComplete(w, history, phrase) THEN Finish(w, t)
  ELSE SoloLoopHead(NextRound(w), t)

\* --- duet
DuetPair(w) == SubSeq(w.sess.agents, 1, 2)

RunDuetSession(w, t) ==
  IF Len(w.sess.agents) < 2 THEN Exit(w)
  ELSE Await(InitTurns(w, DuetPair(w)), "duetInit", DuetPair(w))

DuetLoopHead(w, t) ==
  IF LoopGuard(w, DuetMaxTurns)
  THEN Await(TakeTurns(w, DuetPair(w)), "duetRound", DuetPair(w))
  ELSE Finish(w, t)

DuetAfterRound(w, t, history) ==
  IF /\ IsSessionComplete(w, history, w.sess.agents[1] \in w.lp.phrase)
     /\ IsSessionComplete(w, history, w.sess.agents[2] \in w.lp.phrase)
  THEN Finish(w, t)
  ELSE DuetLoopHead(NextRound(w), t)

\* --- hierarchical (group with an agent whose role name is "Oracle")
OracleIndices(w) ==
  {i \in DOMAIN w.sess.agents : w.ag[w.sess.agents[i]].role = "Oracle"}

HasOracle(w) == OracleIndices(w) # {}

OracleOf(w) ==
  w.sess.agents[CHOOSE i \in OracleIndices(w) : \A j \in OracleIndices(w) : i <= j]

WorkersOf(w) == SelectSeq(w.sess.agents, LAMBDA a : a # OracleOf(w))

PyramidSynthesis(w) ==
  Await(TakeTurn(w, OracleOf(w)), "oracleSynth", <<OracleOf(w)>>)

PyramidLoopHead(w, t) ==
  IF LoopGuard(w, PyramidMaxTurns)
  THEN IF WorkersOf(w) = << >> THEN PyramidSynthesis(w)
       ELSE Await(TakeTurns(w, WorkersOf(w)), "workerRound", WorkersOf(w))
  ELSE Finish(w, t)

RunPyramidSession(w, t) ==
  Await(StartTurn(w, OracleOf(w), << >>), "oracleInit", <<OracleOf(w)>>)

PyramidAfterOracleInit(w, t) ==
  IF WorkersOf(w) = << >> THEN PyramidLoopHead(w, t)
  ELSE Await(InitTurns(w, WorkersOf(w)), "workerInit", WorkersOf(w))

PyramidAfterSynthesis(w, t, history, phrase) ==
  IF IsSessionComplete(w, history, phrase) THEN Finish(w, t)
  ELSE PyramidLoopHead(NextRound(w), t)

\* --- group round-robin
GroupTurn(w, i) ==
  [Await(TakeTurn(w, w.sess.agents[i]), "groupTurn", <<w.sess.agents[i]>>)
     EXCEPT !.lp.cursor = i]

GroupLoopHead(w, t) ==
  IF LoopGuard(w, GroupMaxTurns) THEN GroupTurn(w, 1) ELSE Finish(w, t)

\* After one turn of the for-loop.  `break` leaves the for-loop only: the
\* while-loop goes on with turnCount++ and its own guard.
GroupAfterTurn(w, t, history, phrase) ==
  IF IsSessionComplete(w, history, phrase) THEN GroupLoopHead(NextRound(w), t)
  ELSE IF w.lp.cursor < Len(w.sess.agents)
       THEN IF w.sess.status # "running" THEN GroupLoopHead(NextRound(w), t)
            ELSE GroupTurn(w, w.lp.cursor + 1)
       ELSE GroupLoopHead(NextRound(w), t)

RunGroupSession(w, t) ==
  IF Len(w.sess.agents) = 0 THEN Exit(w)
  ELSE IF HasOracle(w) THEN RunPyramidSession(w, t)
  ELSE Await(InitTurns(w, w.sess.agents), "groupInit", w.sess.agents)

RunCryptoSession(w, t) ==
  IF POSITIONS[w.sess.position].agents <= 2
  THEN RunDuetSession(w, t) ELSE RunGroupSession(w, t)

RunHealingSession(w, t) == RunSoloSession(w, t)

RunGenericSession(w, t) ==
  IF Len(w.sess.agents) = 1 THEN RunSoloSession(w, t)
  ELSE IF Len(w.sess.agents) = 2 THEN RunDuetSession(w, t)
  ELSE RunGroupSession(w, t)

RunSession(w, t) ==
  LET category == POSITIONS[w.sess.position].category
  IN CASE category = "solo"    -> RunSoloSession(w, t)
       [] category = "duet"    -> RunDuetSession(w, t)
       [] category = "group"   -> RunGroupSession(w, t)
       [] category = "crypto"  -> RunCryptoSession(w, t)
       [] category = "healing" -> RunHealingSession(w, t)
       [] OTHER                -> RunGenericSession(w, t)

\* The loop segment that follows the join of the awaited turns.
Continue(w, t, history, phrase) ==
  CASE w.lp.pc = "soloTurn"    -> SoloAfterTurn(w, t, history, phrase)
    [] w.lp.pc = "duetInit"    -> DuetLoopHead(w, t)
    [] w.lp.pc = "duetRound"   -> DuetAfterRound(w, t, history)
    [] w.lp.pc = "groupInit"   -> GroupLoopHead(w, t)
    [] w.lp.pc = "groupTurn"   -> GroupAfterTurn(w, t, history, phrase)
    [] w.lp.pc = "oracleInit"  -> PyramidAfterOracleInit(w, t)
    [] w.lp.pc = "workerInit"  -> PyramidLoopHead(w, t)
    [] w.lp.pc = "workerRound" -> PyramidSynthesis(w)
    [] w.lp.pc = "oracleSynth" -> PyramidAfterSynthesis(w, t, history, phrase)
    [] OTHER                   -> w

\* Variant: the handler records the description but leaves the status.
RunSessionCatchKeepsStatus(w) ==
  [w EXCEPT !.sess.error = "turn failed",
            !.life = Append(@, "error"),
            !.lp.pc = "rejected", !.lp.awaiting = {}, !.lp.phrase = {}]

\* createSession(): the handler of runSession(session).catch(...)
RunSessionCatch(w) ==
  [w EXCEPT !.sess.status = "error", !.sess.error = "turn failed",
            !.life = Append(@, "error"),
            !.lp.pc = "rejected", !.lp.awaiting = {}, !.lp.phrase = {}]

\* ------------------------------------------------------------------------
\* State
\* ------------------------------------------------------------------------
AllIds == SessionIds \cup ({DemoSessionId(key, t) : key \in ({"contemplator", "pattern_doctor",
        "mirror", "arbitrageur", "circle", "pyramid", "oracle_choir", "recovery"}),
        t \in 0..MaxTime}) \cup UnknownIds

NoCall == [op |-> "none", id |-> "", to |-> "", ok |-> TRUE, status |-> "",
           msgs |-> << >>, sid |-> "", type |-> "", thrown |-> FALSE,
           tool |-> << >>, handler |-> << >>, position |-> "", mode |-> "",
           connected |-> FALSE, sent |-> FALSE]

\* ton-wallet.ts: the module's state before any connection.
NoWallet == [client |-> FALSE, wallet |-> FALSE, keyPair |-> FALSE,
             address |-> "", network |-> "testnet"]

Init ==
  /\ now = 0
  /\ hasOrch \in BOOLEAN
  /\ sessions = << >>
  /\ legacySessions = << >>
  /\ activeAgents = {}
  /\ agents = << >>
  /\ messages = << >>
  /\ pendingByAgent = << >>
  /\ nextMsg = 0
  /\ notified = << >>
  /\ loop = << >>
  /\ inflight = << >>
  /\ turnInput = << >>
  /\ lifecycle = << >>
  /\ caught = << >>
  /\ stopReports = [id \in AllIds |-> << >>]
  /\ sendCalls = 0
  /\ busOps = 0
  /\ lastCall = NoCall
  /\ eventStore = << >>
  /\ state = NoWallet

World(s) ==
  [sess |-> sessions[s], lp |-> loop[s], infl |-> inflight[s],
   pend |-> pendingByAgent, ag |-> agents, tin |-> turnInput,
   life |-> lifecycle[s]]

Commit(s, w) ==
  /\ sessions' = Put(sessions, s, w.sess)
  /\ loop' = Put(loop, s, w.lp)
  /\ inflight' = Put(inflight, s, w.infl)
  /\ pendingByAgent' = w.pend
  /\ agents' = w.ag
  /\ turnInput' = w.tin
  /\ lifecycle' = Put(lifecycle, s, w.life)

LoopAlive(lp) == lp.pc \notin {"exited", "rejected"}

\* ------------------------------------------------------------------------
\* position_invoke, with createSession() and spawnAgents().  createSession
\* suspends once, on `await this.spawnAgents(session)`, whose promise is
\* already resolved, so no other handler runs before it resumes: the status
\* goes initializing -> spawning_agents -> running inside this action and the
\* topology loop runs up to its first awaited turn(s).
\* ------------------------------------------------------------------------
CreateSession(id, key, roster, config) ==
  LET ids == [i \in DOMAIN roster |-> AgentId(id, roster[i], i - 1)]
      fresh == [a \in Range(ids) |->
                  NewAgent(id, roster[CHOOSE i \in DOMAIN ids : ids[i] = a])]
      w0 == [sess |-> [id |-> id, position |-> key, config |-> config,
                       status |-> "running", agents |-> ids,
                       startedAt |-> now, completedAt |-> -1, error |-> ""],
             lp   |-> [pc |-> "start", turnCount |-> 0, cursor |-> 0,
                       awaiting |-> {}, phrase |-> {}, signalled |-> {},
                       overlapped |-> {}],
             infl |-> {},
             pend |-> pendingByAgent,
             ag   |-> fresh @@ agents,
             tin  |-> [a \in Range(ids) |-> << >>] @@ turnInput,
             life |-> <<"initializing", "running">>]
      w == RunSession(w0, now)
  IN /\ Commit(id, w)
     /\ activeAgents' = activeAgents \cup Range(ids)
     /\ caught' = Put(caught, id, 0)
     /\ lastCall' = [NoCall EXCEPT !.op = "position_invoke", !.id = id,
                                   !.status = w.sess.status,
                                   !.position = key, !.mode = "REAL"]
     /\ UNCHANGED <<legacySessions, messages, nextMsg, notified>>

\* SkillLoader.load(): the sessions whose creation put the position's skill
\* in the loader's cache (sessions are never removed), whether the call
\* throws, and the roster of the skill it returns.
CachedBy(key) == {s \in DOMAIN sessions : sessions[s].position = key}

LoadThrows(file, key) == CachedBy(key) = {} /\ ~file.exists

Load(file, key) ==
  IF CachedBy(key) # {}
  THEN LET s == CHOOSE x \in CachedBy(key) : TRUE
       IN [i \in DOMAIN sessions[s].agents |-> agents[sessions[s].agents[i]].role]
  ELSE ExtractAgents(file, key)

\* The handler answers with an error result, or throws, and changes nothing.
InvokeFails(positionName, thrown, mode) ==
  /\ lastCall' = [NoCall EXCEPT !.op = "position_invoke", !.ok = FALSE,
                                !.thrown = thrown, !.position = positionName,
                                !.mode = mode]
  /\ UNCHANGED <<sessions, legacySessions, activeAgents, agents, messages,
                 pendingByAgent, nextMsg, notified, loop, inflight,
                 turnInput, lifecycle, caught>>

\* `id` is the id createSession builds for a real session; `file` is the
\* SKILL.md of the position as it is on disk.  For an inherited key
\* getSkillPath(position.path) throws, path.join being given undefined.
PositionInvoke(id, positionName, file, config, demoMode) ==
  /\ IF Lookup(positionName) = "undefined"
     THEN InvokeFails(positionName, FALSE, "")
     ELSE IF Lookup(positionName) = "inherited"
     THEN InvokeFails(positionName, TRUE, "")
     ELSE IF hasOrch /\ ~demoMode
     THEN IF LoadThrows(file, positionName)
          THEN InvokeFails(positionName, TRUE, "REAL")
          ELSE /\ id \in SessionIds
               /\ id \notin DOMAIN sessions
               /\ CreateSession(id, positionName, Load(file, positionName), config)
     ELSE /\ legacySessions' = Put(legacySessions, DemoSessionId(positionName, now),
                 [position |-> positionName, startedAt |-> now,
                  agents |-> POSITIONS[positionName].agents, status |-> "running",
                  config |-> config])
          /\ lastCall' = [NoCall EXCEPT !.op = "position_invoke",
                                        !.id = DemoSessionId(positionName, now),
                                        !.status = "running",
                                        !.position = positionName, !.mode = "DEMO"]
          /\ UNCHANGED <<sessions, activeAgents, agents, messages,
                         pendingByAgent, nextMsg, notified, loop, inflight,
                         turnInput, lifecycle, caught>>
  /\ UNCHANGED <<eventStore, state, now, hasOrch, stopReports, sendCalls, busOps>>

\* ------------------------------------------------------------------------
\* An executeTurn() in flight returns.  `phrase`: its response contains one
\* of the completion signals.  When it is the last turn the loop awaits, the
\* loop's next segment runs.  The response is kept only where the loop reads
\* it (solo, duet round, group turn, synthesis).
\* ------------------------------------------------------------------------
ReadsResponse(pc) == pc \in {"soloTurn", "duetRound", "groupTurn", "oracleSynth"}

\* Variant: the await resumes as soon as one of its turns has returned.
JoinedAny(awaiting) == TRUE

\* `await Promise.all([...])` / `await executeTurn(...)` resumes once every
\* turn it waits for has returned.
Joined(awaiting) == awaiting = {}

\* The usage of one answer of the reasoning primitive (input_tokens +
\* output_tokens).
Usage == 1

\* totalTokens when the tool-use loop is left: after an answer with tool
\* calls and stop_reason end_turn no further answer is asked for.
LastTotalTokens(agent) ==
  agent.totalTokens + (IF agent.continueLoop THEN Usage ELSE 0)

TurnReturned(w, a, phrase, t, history) ==
  LET w0 == [w EXCEPT !.infl = @ \ {a}, !.ag[a].status = "idle",
                      !.ag[a].turnsCompleted = @ + 1,
                      !.ag[a].tokensUsed = @ + LastTotalTokens(w.ag[a])]
      w1 == [w0 EXCEPT !.lp.awaiting = @ \ {a},
                       !.lp.phrase = IF phrase /\ ReadsResponse(w.lp.pc)
                                     THEN @ \cup {a} ELSE @]
      w2 == [w1 EXCEPT !.lp.signalled = w1.lp.phrase]
  IN IF a \notin w.lp.awaiting THEN w0
     ELSE IF ~Joined(w1.lp.awaiting) THEN w1
     ELSE Continue(w2, t, history, phrase)

TurnReturn(s, a, phrase) ==
  /\ s \in DOMAIN sessions
  /\ a \in inflight[s]
  /\ agents[a].newToolCalls = << >>
  /\ Commit(s, TurnReturned(World(s), a, phrase, now, Get(messages, s, << >>)))
  /\ UNCHANGED <<eventStore, state, now, hasOrch, legacySessions, activeAgents, messages, nextMsg,
                 notified, caught, stopReports, sendCalls, busOps, lastCall>>

\* An executeTurn() in flight throws.  If the loop awaits it, the rejection
\* leaves the loop and reaches the catch handler of createSession; a turn
\* whose Promise.all has already rejected is ignored.
TurnThrown(w, a) ==
  LET w0 == [w EXCEPT !.infl = @ \ {a}]
  IN IF a \in w.lp.awaiting THEN RunSessionCatch(w0) ELSE w0

\* The rejection of the turn of agent `a`, but for the record of the call.
TurnRejects(s, a) ==
  /\ Commit(s, TurnThrown(World(s), a))
  /\ caught' = IF a \in loop[s].awaiting THEN [caught EXCEPT ![s] = @ + 1]
               ELSE caught
  /\ UNCHANGED <<eventStore, state, now, hasOrch, legacySessions, activeAgents, messages, nextMsg,
                 notified, stopReports, sendCalls, busOps>>

TurnThrow(s, a) ==
  /\ s \in DOMAIN sessions
  /\ a \in inflight[s]
  /\ TurnRejects(s, a)
  /\ UNCHANGED lastCall

\* ------------------------------------------------------------------------
\* sessions_send requested by an agent during its turn (handleAgentToolCall)
\* ------------------------------------------------------------------------
BusOf == [messages |-> messages, pending |-> pendingByAgent, notified |-> notified]

\* Orchestrator.sessionsSend(fromAgentId, sessionId, to, type, content), but
\* for the Agent objects, which it leaves alone.
SessionsSendCall(from, sid, to, type, content) ==
  LET msg == [from |-> from, to |-> to, sessionId |-> sid, type |-> type,
              content |-> content]
      bus == SessionsSendState(sessions, BusOf, msg, nextMsg)
      error == SessionsSendError(sessions, msg)
  IN /\ messages' = bus.messages
     /\ pendingByAgent' = bus.pending
     /\ notified' = bus.notified
     /\ nextMsg' = nextMsg + SessionsSendBuilt(sessions, msg)
     /\ sendCalls' = sendCalls + 1
     /\ lastCall' = [NoCall EXCEPT !.op = "sessions_send", !.id = from, !.to = to,
                                   !.ok = (error = ""), !.status = error,
                                   !.sid = sid, !.type = type,
                                   !.tool = SessionsSendTool]
     /\ UNCHANGED <<eventStore, state, now, hasOrch, sessions, legacySessions, activeAgents,
                    loop, inflight, turnInput, lifecycle, caught,
                    stopReports, busOps>>

SessionsSend(from, sid, to, type, content) ==
  /\ SessionsSendCall(from, sid, to, type, content)
  /\ UNCHANGED agents

\* handleAgentToolCall(agentId, sessionId, "sessions_send", toolInput), called
\* by executeTurn with the ids of the agent whose turn is running.
AgentSessionsSend(a, to, type, content) ==
  /\ a \in DOMAIN agents
  /\ a \in inflight[agents[a].sessionId]
  /\ SessionsSend(a, agents[a].sessionId, to, type, content)

\* ------------------------------------------------------------------------
\* sendToAgent(sessionId, agentId, message): a message of the user for an
\* agent.  Its id is `user-${Date.now()}`, here a number below the ids of
\* the router.
\* ------------------------------------------------------------------------
SendToAgent(sessionId, agentId) ==
  LET found == /\ sessionId \in DOMAIN sessions
               /\ agentId \in Range(sessions[sessionId].agents)
      msg == [id |-> 0 - (now + 1), from |-> "user", to |-> agentId,
              sessionId |-> sessionId, type |-> "INSTRUCTION", content |-> "c"]
  IN /\ agents' = IF found
                  THEN [agents EXCEPT ![agentId].pendingMessages = Append(@, msg)]
                  ELSE agents
     /\ lastCall' = [NoCall EXCEPT !.op = "sendToAgent", !.id = agentId,
                                   !.sid = sessionId, !.ok = found,
                                   !.thrown = ~found,
                                   !.msgs = IF found THEN <<msg.id>> ELSE << >>]
     /\ UNCHANGED <<eventStore, state, now, hasOrch, sessions, legacySessions,
                    activeAgents, messages, pendingByAgent, nextMsg, notified,
                    loop, inflight, turnInput, lifecycle, caught, stopReports,
                    sendCalls, busOps>>

\* ------------------------------------------------------------------------
\* The tool-use loop of executeTurn.  MessagesCreate is an answer of the
\* reasoning primitive with tool_use blocks for the names `calls`, in this
\* order; `endTurn` is whether its stop_reason is end_turn or stop_sequence.
\* ExecuteToolUse is one pass of `for (const call of newToolCalls)`: the
\* tool handler is called for the next call and its result is pushed, or
\* the turn is rejected with what the handler threw.  `to` and `type` are
\* the input of a sessions_send, `outcome` is how a registered handler ends.
\* The loop has no iteration limit; MaxInvocations caps it in the model.
\* ------------------------------------------------------------------------
MessagesCreate(a, calls, endTurn) ==
  LET s == agents[a].sessionId
      \* the tool_use blocks as ToolCall records; block ids are unique in a
      \* turn, and toolCalls is kept by its ids
      newToolCalls == [i \in DOMAIN calls |->
                         [id |-> Len(agents[a].toolCalls) + i, name |-> calls[i]]]
      ids == [i \in DOMAIN calls |-> newToolCalls[i].id]
  IN /\ a \in inflight[s]
     /\ agents[a].newToolCalls = << >>
     /\ agents[a].continueLoop
     /\ agents[a].invocations < MaxInvocations
     /\ calls # << >>
     /\ agents' = [agents EXCEPT
                     ![a].invocations = @ + 1,
                     ![a].totalTokens = @ + Usage,
                     ![a].status = "executing_tool",
                     ![a].toolCalls = @ \o ids,
                     ![a].newToolCalls = newToolCalls,
                     ![a].continueLoop = ~endTurn]
     /\ lastCall' = [NoCall EXCEPT !.op = "messages_create", !.id = a, !.sid = s]
     /\ UNCHANGED <<eventStore, state, now, hasOrch, sessions, legacySessions,
                    activeAgents, messages, pendingByAgent, nextMsg, notified,
                    loop, inflight, turnInput, lifecycle, caught, stopReports,
                    sendCalls, busOps>>

\* Variant: the result is put in front of the earlier ones.
PushToolResultFront(toolResults, call, isError) ==
  <<[toolCallId |-> call.id, isError |-> isError]>> \o toolResults

\* toolResults.push({ toolCallId: call.id, content, isError })
PushToolResult(toolResults, call, isError) ==
  Append(toolResults, [toolCallId |-> call.id, isError |-> isError])

ExecuteToolUse(a, tool, to, type, outcome) ==
  LET s == agents[a].sessionId
      r == HandleAgentToolCall(tool, outcome)
      \* the agent after the handler answered its next call
      AfterToolResult(agent, isError) ==
        [agent EXCEPT
           !.toolResults = PushToolResult(@, Head(agent.newToolCalls), isError),
           !.newToolCalls = Tail(@),
           !.status = IF Tail(agent.newToolCalls) = << >> THEN "thinking" ELSE @]
  IN /\ a \in inflight[s]
     /\ agents[a].newToolCalls # << >>
     /\ tool = Head(agents[a].newToolCalls).name
     /\ IF tool = SessionsSendTool
        THEN /\ SessionsSendCall(a, s, to, type, "c")
             /\ agents' = [agents EXCEPT ![a] = AfterToolResult(@, ~lastCall'.ok)]
        ELSE IF r.thrown
        THEN /\ TurnRejects(s, a)
             /\ lastCall' = [NoCall EXCEPT !.op = "tool_call", !.id = a, !.sid = s,
                                           !.ok = FALSE, !.thrown = TRUE,
                                           !.tool = tool, !.handler = r.handler]
        ELSE /\ agents' = [agents EXCEPT ![a] = AfterToolResult(@, r.isError)]
             /\ lastCall' = [NoCall EXCEPT !.op = "tool_call", !.id = a, !.sid = s,
                                           !.ok = ~r.isError,
                                           !.tool = tool, !.handler = r.handler]
             /\ UNCHANGED <<eventStore, state, now, hasOrch, sessions, legacySessions, activeAgents,
                            messages, pendingByAgent, nextMsg, notified, loop,
                            inflight, turnInput, lifecycle, caught, stopReports,
                            sendCalls, busOps>>

\* ------------------------------------------------------------------------
\* position_stop, with stopSession()
\* ------------------------------------------------------------------------
\* Variant: stopSession releases the session but leaves its status.
StopSessionKeepsStatus(id) ==
  IF id \notin DOMAIN sessions
  THEN UNCHANGED <<sessions, agents, activeAgents, messages, pendingByAgent,
                   lifecycle>>
  ELSE /\ sessions' = [sessions EXCEPT ![id].completedAt = now]
       /\ agents' = DestroySessionAgents(agents, activeAgents, id)
       /\ activeAgents' = DestroySessionActive(agents, activeAgents, id)
       /\ messages' = ClearSessionMessages(messages, id)
       /\ pendingByAgent' = ClearSessionPending(pendingByAgent, id)
       /\ lifecycle' = [lifecycle EXCEPT ![id] = Append(@, "stopped")]

StopSession(id) ==
  IF id \notin DOMAIN sessions
  THEN UNCHANGED <<sessions, agents, activeAgents, messages, pendingByAgent,
                   lifecycle>>
  ELSE /\ sessions' = [sessions EXCEPT ![id].status = "stopped",
                                       ![id].completedAt = now]
       /\ agents' = DestroySessionAgents(agents, activeAgents, id)
       /\ activeAgents' = DestroySessionActive(agents, activeAgents, id)
       /\ messages' = ClearSessionMessages(messages, id)
       /\ pendingByAgent' = ClearSessionPending(pendingByAgent, id)
       /\ lifecycle' = [lifecycle EXCEPT ![id] = Append(@, "stopped")]

PositionStop(id) ==
  /\ IF hasOrch /\ id \in DOMAIN sessions
     THEN /\ StopSession(id)
          /\ lastCall' = [NoCall EXCEPT !.op = "position_stop", !.id = id,
                                        !.status = "stopped"]
          /\ UNCHANGED legacySessions
     ELSE IF id \in DOMAIN legacySessions
     THEN /\ legacySessions' = [legacySessions EXCEPT ![id].status = "completed"]
          /\ lastCall' = [NoCall EXCEPT !.op = "position_stop", !.id = id,
                                        !.status = "stopped"]
          /\ UNCHANGED <<sessions, agents, activeAgents, messages,
                         pendingByAgent, lifecycle>>
     ELSE /\ lastCall' = [NoCall EXCEPT !.op = "position_stop", !.id = id,
                                        !.ok = FALSE, !.status = ""]
          /\ UNCHANGED <<sessions, legacySessions, agents, activeAgents,
                         messages, pendingByAgent, lifecycle>>
  /\ stopReports' = [stopReports EXCEPT ![id] = Append(@, lastCall'.status)]
  /\ UNCHANGED <<eventStore, state, now, hasOrch, nextMsg, notified, loop, inflight, turnInput,
                 caught, sendCalls, busOps>>

\* position_stop of an id that names no session answers with an error, which
\* the report records as "".
\* position_status: a read; the status it reports in the current state
\* ("" when it answers with an error).
PositionStatus(id) ==
  IF hasOrch /\ id \in DOMAIN sessions THEN sessions[id].status
  ELSE IF id \in DOMAIN legacySessions THEN legacySessions[id].status
  ELSE ""

PositionStatusCall(id) ==
  /\ lastCall' = [NoCall EXCEPT !.op = "position_status", !.id = id,
                                !.ok = (PositionStatus(id) # ""),
                                !.status = PositionStatus(id)]
  /\ UNCHANGED <<eventStore, state, now, hasOrch, sessions, legacySessions, activeAgents, agents,
                 messages, pendingByAgent, nextMsg, notified, loop, inflight,
                 turnInput, lifecycle, caught, stopReports, sendCalls, busOps>>

\* The clock advances.
Tick ==
  /\ now < MaxTime
  /\ now' = now + 1
  /\ UNCHANGED <<eventStore, state, hasOrch, sessions, legacySessions, activeAgents, agents,
                 messages, pendingByAgent, nextMsg, notified, loop, inflight,
                 turnInput, lifecycle, caught, stopReports, sendCalls, busOps,
                 lastCall>>

\* ------------------------------------------------------------------------
\* Session lifecycle specification
\* ------------------------------------------------------------------------
RECURSIVE Sum(_)
Sum(f) == IF DOMAIN f = {} THEN 0
          ELSE LET k == CHOOSE x \in DOMAIN f : TRUE IN f[k] + Sum(Del(f, k))

StopsMade == Sum([id \in AllIds |-> Len(stopReports[id])])

\* One position is invoked per behaviour and the clock starts with it.
Next ==
  \/ \E id \in LifecycleIds, inv \in ({ <<"contemplator", <<"Contemplator">>, 1>>,
          <<"pattern_doctor", << >>, 0>>, <<"mirror", <<"Reflector", "Verifier">>, 0>>,
          <<"arbitrageur", <<"Reflector">>, 0>>, <<"circle", <<"Reflector", "Verifier">>, 0>>,
          <<"circle", << >>, 1>>, <<"pyramid", <<"Oracle", "Reflector", "Verifier">>, 0>>,
          <<"oracle_choir", <<"Oracle", "Reflector">>, 1>> }), demoMode \in BOOLEAN :
       /\ DOMAIN sessions \cup DOMAIN legacySessions = {}
       /\ PositionInvoke(id, inv[1], SkillFile(inv[2]), [duration |-> inv[3]],
                         demoMode)
  \/ \E s \in DOMAIN sessions, a \in DOMAIN agents, phrase \in BOOLEAN :
       TurnReturn(s, a, phrase)
  \/ \E s \in DOMAIN sessions, a \in DOMAIN agents : TurnThrow(s, a)
  \/ \E a \in DOMAIN agents : \E in \in (LET w == World(agents[a].sessionId) IN {<<"orchestrator",
          "COMPLETE">>} \cup (IF HasOracle(w) /\ a # OracleOf(w) THEN {<<OracleOf(w),
          "RESULTS">>} ELSE {})) :
       /\ sendCalls < MaxSends
       /\ AgentSessionsSend(a, in[1], in[2], "c")
  \/ \E id \in DOMAIN sessions \cup DOMAIN legacySessions :
       /\ StopsMade < MaxStops
       /\ PositionStop(id)
  \/ /\ DOMAIN sessions \cup DOMAIN legacySessions # {}
     /\ Tick

Spec == Init /\ [][Next]_vars

\* ------------------------------------------------------------------------
\* Direct calls of the router (MessageBus.send, MessageBus.receive)
\* ------------------------------------------------------------------------
BusSend(from, to, sessionId, type) ==
  LET msg == [from |-> from, to |-> to, sessionId |-> sessionId, type |-> type,
              content |-> "c"]
      bus == BusSendState(BusOf, msg, nextMsg + 1)
  IN /\ messages' = bus.messages
     /\ pendingByAgent' = bus.pending
     /\ notified' = bus.notified
     /\ nextMsg' = nextMsg + 1
     /\ busOps' = busOps + 1
     /\ lastCall' = [NoCall EXCEPT !.op = "send", !.id = from, !.to = to,
                                   !.msgs = <<nextMsg + 1>>,
                                   !.sid = sessionId, !.type = type]
     /\ UNCHANGED <<eventStore, state, now, hasOrch, sessions, legacySessions, activeAgents,
                    agents, loop, inflight, turnInput, lifecycle, caught,
                    stopReports, sendCalls>>

BusReceive(agentId) ==
  /\ pendingByAgent' = ReceiveState(pendingByAgent, agentId)
  /\ lastCall' = [NoCall EXCEPT !.op = "receive", !.id = agentId,
                     !.msgs = MsgIds(ReceiveResult(pendingByAgent, agentId))]
  /\ UNCHANGED <<eventStore, state, now, hasOrch, sessions, legacySessions, activeAgents, agents,
                 messages, nextMsg, notified, loop, inflight, turnInput,
                 lifecycle, caught, stopReports, sendCalls, busOps>>

\* ------------------------------------------------------------------------
\* Router specification: two sessions whose first turns are in flight, the
\* agents' sessions_send calls, direct router calls, and stop.
\* ------------------------------------------------------------------------
InitBus == Init /\ hasOrch

\* The callers are the first agent of each session (agentIndex 0); direct
\* recipients, and the agents whose queue is read, are the first two agents
\* of each session.
Senders == {sessions[s].agents[1] : s \in {x \in DOMAIN sessions : sessions[x].agents # << >>}}

Receivers ==
  UNION {{sessions[s].agents[i] : i \in (DOMAIN sessions[s].agents) \cap (1..2)} :
           s \in DOMAIN sessions}

Peers(a) == Receivers \ {a}

NextBus ==
  \/ \E id \in SessionIds, inv \in ({ <<"circle", <<"Contemplator", "Reflector", "Verifier">>, 0>>,
          <<"contemplator", <<"Contemplator">>, 0>> }) :
       /\ \A s \in DOMAIN sessions : sessions[s].position # inv[1]
       /\ PositionInvoke(id, inv[1], SkillFile(inv[2]), [duration |-> inv[3]], FALSE)
  \/ \E a \in Senders : \E in \in ({<<"all", "RESULTS">>, <<"all", "NOT_A_REAL_TYPE">>, <<"all",
          "PYRAMID_ASSIGN">>, <<"orchestrator", "RESULTS">>} \cup {<<b,
          "RESULTS">> : b \in Peers(a)}) :
       /\ sendCalls + busOps < MaxBusOps
       /\ AgentSessionsSend(a, in[1], in[2], "c")
  \/ \E a \in Senders : \E m \in (LET sid == agents[a].sessionId IN {<<"", sid, "all", "RESULTS",
          "c">>, <<a, "", "all", "RESULTS", "c">>, <<a, sid, "", "RESULTS", "c">>, <<a, sid, "all",
          "", "c">>}) :
       /\ sendCalls + busOps < MaxBusOps
       /\ SessionsSend(m[1], m[2], m[3], m[4], m[5])
  \/ \E a \in Senders : \E to \in {"all"} \cup Peers(a) :
       /\ sendCalls + busOps < MaxBusOps
       /\ BusSend(a, to, agents[a].sessionId, "RESULTS")
  \/ \E a \in Receivers : BusReceive(a)
  \/ \E id \in SessionIds \cup UnknownIds :
       /\ StopsMade < 1
       /\ PositionStop(id)

SpecBus == InitBus /\ [][NextBus]_vars

\* ------------------------------------------------------------------------
\* Completion signalling specification: a solo session, a duet or a
\* round-robin group of two agents, whose turns return with or without a
\* completion phrase or throw, and who send COMPLETE messages during their
\* turns, to the orchestrator or to "all"; the session may be stopped once.
\* ------------------------------------------------------------------------
InitSignal == Init /\ hasOrch

NextSignal ==
  \/ \E id \in LifecycleIds, inv \in ({ <<"contemplator", <<"Contemplator">>, 0>>, <<"mirror",
          <<"Reflector", "Verifier">>, 0>>, <<"circle", <<"Reflector", "Verifier">>, 0>> }) :
       /\ DOMAIN sessions = {}
       /\ PositionInvoke(id, inv[1], SkillFile(inv[2]), [duration |-> inv[3]], FALSE)
  \/ \E s \in DOMAIN sessions, a \in DOMAIN agents, phrase \in BOOLEAN :
       TurnReturn(s, a, phrase)
  \/ \E s \in DOMAIN sessions, a \in DOMAIN agents : TurnThrow(s, a)
  \/ \E a \in DOMAIN agents, to \in {"orchestrator", "all"} :
       /\ sendCalls < MaxCompletes
       /\ AgentSessionsSend(a, to, "COMPLETE", "c")
  \/ \E id \in DOMAIN sessions :
       /\ StopsMade < 1
       /\ PositionStop(id)

SpecSignal == InitSignal /\ [][NextSignal]_vars

\* ------------------------------------------------------------------------
\* Invocation specification: position_invoke for names in and outside the
\* catalog, in real and in demo mode, with the position's SKILL.md present,
\* missing, or without a usable Agents section; position_status and
\* position_stop for ids of sessions and for an id of none.
\* ------------------------------------------------------------------------
NextInvoke ==
  \/ \E id \in SessionIds, positionName \in ({"mirror", "nonexistent", "", "constructor"}),
          file \in ({SkillFile(<<"Reflector", "Verifier">>), SkillFile(<< >>), ([exists |-> TRUE,
          kind |-> "none", agents |-> << >>]), ([exists |-> FALSE, kind |-> "none",
          agents |-> << >>])}),
        demoMode \in BOOLEAN :
       PositionInvoke(id, positionName, file, [duration |-> 0], demoMode)
  \/ \E id \in DOMAIN sessions \cup DOMAIN legacySessions \cup UnknownIds :
       PositionStatusCall(id)
  \/ \E id \in DOMAIN sessions \cup DOMAIN legacySessions \cup UnknownIds :
       /\ StopsMade < 1
       /\ PositionStop(id)
  \/ Tick

SpecInvoke == Init /\ [][NextInvoke]_vars

\* ------------------------------------------------------------------------
\* Tool-use specification: one solo session, with the transaction
\* gate of its config set or not; during a turn the reasoning primitive asks
\* for tools, those of the catalog and others, and the turn returns when the
\* primitive asks for none.
\* ------------------------------------------------------------------------
InitTurn == Init /\ hasOrch

\* What the primitive may ask for: the tools offered to it, the remaining
\* name of AGENT_AVAILABLE_TOOLS, the gated tool, and names in no catalog.
ToolRequests(a) ==
  agents[a].tools \cup {<<"ton", "contract", "get", "state">>} \cup GATED_TOOLS
    \cup ({<<"unknown", "tool">>, <<"foo">>, <<"">>, <<"ton", "wallet">>, <<"position", "list">>})

NextTurn ==
  \/ \E id \in LifecycleIds, inv \in ({ <<"contemplator", <<"Contemplator">>, 0>>, <<"recovery",
          <<"Contemplator">>, 0>> }), allow \in BOOLEAN :
       /\ DOMAIN sessions = {}
       /\ PositionInvoke(id, inv[1], SkillFile(inv[2]),
                         [duration |-> inv[3], allowTransactions |-> allow], FALSE)
  \/ \E a \in DOMAIN agents : \E calls \in ({<<tool>> : tool \in ToolRequests(a)}
          \cup {<<SessionsListTool, <<"unknown", "tool">>>>, <<<<"ton", "wallet", "balance">>,
          GalleryEmitTool>>, <<TonWalletSend, SessionsSendTool>>}), endTurn \in BOOLEAN :
       /\ agents[a].turnsCompleted < MaxToolTurns
       /\ MessagesCreate(a, calls, endTurn)
  \/ \E a \in DOMAIN agents : \E tool \in ToolRequests(a) :
       \E outcome \in HandlerOutcomes(tool) :
         /\ tool = SessionsSendTool => sendCalls < MaxSends
         /\ ExecuteToolUse(a, tool, "orchestrator", "RESULTS", outcome)
  \/ \E s \in DOMAIN sessions, a \in DOMAIN agents, phrase \in BOOLEAN :
       TurnReturn(s, a, phrase)
  \/ \E sessionId \in SessionIds, agentId \in DOMAIN agents \cup {"nobody"} :
       /\ \A a \in DOMAIN agents : Len(agents[a].pendingMessages) < MaxSends
       /\ SendToAgent(sessionId, agentId)

SpecTurn == InitTurn /\ [][NextTurn]_vars

\* ------------------------------------------------------------------------
\* Gallery tools (gallery-stream.ts): gallery_emit and gallery_clear of the
\* MCP server, over the event store of the module
\* ------------------------------------------------------------------------
\* An argument that the caller left out, and one given as null.
Undefined == "undefined"
Null == "null"

MAX_EVENTS == 1000

\* addEvent(): the store after the push and the trim.
AddEvent(store, event) ==
  LET pushed == Append(store, event)
  IN IF Len(pushed) > MAX_EVENTS
     THEN SubSeq(pushed, Len(pushed) - MAX_EVENTS + 1, Len(pushed))
     ELSE pushed

\* gallery_emit: the arguments are read and handed to addEvent as they are;
\* the answer is the stored event's id.
GalleryEmit(sessionId, agentId, type, data) ==
  /\ Len(eventStore) < MaxEvents
  /\ eventStore' = AddEvent(eventStore,
                     [sessionId |-> sessionId, agentId |-> agentId,
                      type |-> type, data |-> data, timestamp |-> now])
  /\ lastCall' = [NoCall EXCEPT !.op = "gallery_emit", !.ok = TRUE,
                                !.sid = sessionId, !.type = type,
                                !.status = data]
  /\ UNCHANGED <<state, now, hasOrch, sessions, legacySessions, activeAgents,
                 agents, messages, pendingByAgent, nextMsg, notified, loop,
                 inflight, turnInput, lifecycle, caught, stopReports,
                 sendCalls, busOps>>

\* gallery_clear: the events of one session, or all of them without an id.
GalleryClear(sessionId) ==
  /\ eventStore' = IF sessionId \notin {Undefined, ""}
                   THEN SelectSeq(eventStore, LAMBDA e : e.sessionId # sessionId)
                   ELSE << >>
  /\ lastCall' = [NoCall EXCEPT !.op = "gallery_clear", !.ok = TRUE,
                                !.sid = sessionId]
  /\ UNCHANGED <<state, now, hasOrch, sessions, legacySessions, activeAgents,
                 agents, messages, pendingByAgent, nextMsg, notified, loop,
                 inflight, turnInput, lifecycle, caught, stopReports,
                 sendCalls, busOps>>

\* ------------------------------------------------------------------------
\* Wallet tools (ton-wallet.ts): handleTonWalletTool over the module's state
\* ------------------------------------------------------------------------
WalletUnchanged ==
  UNCHANGED <<eventStore, now, hasOrch, sessions, legacySessions, activeAgents,
              agents, messages, pendingByAgent, nextMsg, notified, loop,
              inflight, turnInput, lifecycle, caught, stopReports, sendCalls,
              busOps>>

\* ton_wallet_connect: the module's state is assigned before the contract
\* state is fetched; `rpc` is what that fetch does ("ok" or "throw").
TonWalletConnectCall(mnemonic, network, rpc) ==
  /\ IF Len(mnemonic) # 24
     THEN /\ state' = state
          /\ lastCall' = [NoCall EXCEPT !.op = "ton_wallet_connect", !.ok = FALSE]
     ELSE /\ state' = [client |-> TRUE, wallet |-> TRUE, keyPair |-> TRUE,
                       address |-> "EQ", network |-> network]
          /\ lastCall' = [NoCall EXCEPT !.op = "ton_wallet_connect",
                                        !.ok = (rpc = "ok"),
                                        !.thrown = (rpc = "throw"),
                                        !.id = "EQ", !.status = network]
  /\ WalletUnchanged

\* ton_wallet_info
TonWalletInfoCall ==
  /\ state' = state
  /\ lastCall' = [NoCall EXCEPT !.op = "ton_wallet_info", !.ok = TRUE,
                                !.connected = state.wallet,
                                !.id = state.address, !.status = state.network]
  /\ WalletUnchanged

\* ton_wallet_send: `rpc` is what the network does: "throw" (getSeqno or
\* getBalance fails), "insufficient" (the balance is below amount + fee),
\* "confirmed" or "pending" (the seqno read after the transfer).
TonWalletSendCall(to, amount, dryRun, rpc) ==
  /\ state' = state
  /\ lastCall' =
       LET call == [NoCall EXCEPT !.op = "ton_wallet_send", !.to = to,
                                  !.connected = state.wallet]
       IN IF ~state.wallet \/ ~state.client \/ ~state.keyPair
               THEN [call EXCEPT !.ok = FALSE]
          ELSE IF to \notin ({"EQDv"}) \/ amount \notin ({"1"})
               THEN [call EXCEPT !.ok = FALSE]
          ELSE IF rpc = "throw" THEN [call EXCEPT !.ok = FALSE, !.thrown = TRUE]
          ELSE IF rpc = "insufficient" THEN [call EXCEPT !.ok = FALSE]
          ELSE IF dryRun THEN [call EXCEPT !.ok = TRUE, !.status = "prepared"]
          ELSE [call EXCEPT !.ok = TRUE, !.status = rpc, !.sent = TRUE]
  /\ WalletUnchanged

\* ton_wallet_disconnect
TonWalletDisconnectCall ==
  /\ state' = NoWallet
  /\ lastCall' = [NoCall EXCEPT !.op = "ton_wallet_disconnect", !.ok = TRUE]
  /\ WalletUnchanged

\* ------------------------------------------------------------------------
\* Tools specification: the gallery and the wallet tools of the MCP server,
\* called in any order with arguments present, missing or malformed.
\* ------------------------------------------------------------------------
NextTools ==
  \/ \E in \in ({<<"s1", "system", "{}">>, <<"s2", "agent_action", "{}">>, <<Undefined, "system",
          "{}">>, <<"", "system", "{}">>, <<"s1", Undefined, "{}">>, <<"s1", "invalid_type",
          "{}">>, <<"s1", "system", Undefined>>, <<"s1", "system", Null>>}) : GalleryEmit(in[1],
          Undefined, in[2], in[3])
  \/ \E sessionId \in {"s1", Undefined} : GalleryClear(sessionId)
  \/ \E mnemonic \in ({([i \in 1..24 |-> "abandon"]), <<"invalid", "mnemonic">>}),
          network \in {"testnet", "mainnet"},
        rpc \in {"ok", "throw"} :
       TonWalletConnectCall(mnemonic, network, rpc)
  \/ TonWalletInfoCall
  \/ \E to \in {"EQDv", "nowhere"}, amount \in {"1", "0"}, dryRun \in BOOLEAN,
        rpc \in {"throw", "insufficient", "confirmed", "pending"} :
       TonWalletSendCall(to, amount, dryRun, rpc)
  \/ TonWalletDisconnectCall

SpecTools == Init /\ [][NextTools]_vars

\* ------------------------------------------------------------------------
\* Derived notions used by the properties
\* ------------------------------------------------------------------------
\* The declared state machine (types.ts SessionStatus, spec section 3).
NextStatuses(status) ==
  CASE status = "initializing"    -> {"spawning_agents", "error", "timeout", "stopped"}
    [] status = "spawning_agents" -> {"running", "error", "timeout", "stopped"}
    [] status = "running"         -> {"completing", "completed", "error", "timeout", "stopped"}
    [] status = "completing"      -> {"completed", "error", "timeout", "stopped"}
    [] OTHER                      -> {}

\* The topology loop runSession dispatches the session to.
Topology(s) ==
  LET category == POSITIONS[sessions[s].position].category
      duetLike == \/ category = "duet"
                  \/ category = "crypto" /\ POSITIONS[sessions[s].position].agents <= 2
  IN IF category \in {"solo", "healing"} THEN "solo"
     ELSE IF duetLike THEN "duet"
     ELSE IF HasOracle(World(s)) THEN "pyramid"
     ELSE "group"

Budget(s) ==
  CASE Topology(s) = "solo"    -> SoloMaxTurns
    [] Topology(s) = "duet"    -> DuetMaxTurns
    [] Topology(s) = "group"   -> GroupMaxTurns
    [] Topology(s) = "pyramid" -> PyramidMaxTurns

\* The loop was entered: the roster passed the early return of run*Session.
LoopEntered(s) ==
  Len(sessions[s].agents) >= (IF Topology(s) = "duet" THEN 2 ELSE 1)

InRound(pc) ==
  pc \in {"soloTurn", "duetRound", "groupTurn", "workerRound", "oracleSynth"}

Started(s) == inflight'[s] \ inflight[s]

IsAscending(ids) == \A i, j \in DOMAIN ids : i < j => ids[i] < ids[j]

Queue(pend, a) == Get(pend, a, << >>)

\* ------------------------------------------------------------------------
\* Properties
\* ------------------------------------------------------------------------

\* C1: every change of a session's status follows the declared state machine,
\* and a status among completed, error, timeout, stopped never changes again.
C1_StatusMonotone ==
  [][\A s \in DOMAIN sessions :
       sessions'[s].status # sessions[s].status
         => sessions'[s].status \in NextStatuses(sessions[s].status)]_vars

\* C2 (as claimed): every stop of an existing session reports one and the
\* same terminal status, and position_status reads that status back afterwards.
C2_StopReportReadBack ==
  \A id \in DOMAIN sessions \cup DOMAIN legacySessions :
    stopReports[id] # << >> =>
      /\ \A i \in DOMAIN stopReports[id] :
           stopReports[id][i] = stopReports[id][1]
      /\ stopReports[id][1] \in TerminalStatuses
      /\ PositionStatus(id) = stopReports[id][1]

\* C2 (amended): every stop of an existing session reports "stopped", without
\* error, however often it is called; at the return of the call the stored
\* status is "stopped" for an orchestrator session and "completed" for a demo
\* session.
C2_StopIdempotentReport ==
  /\ [](\A id \in DOMAIN sessions \cup DOMAIN legacySessions :
          \A i \in DOMAIN stopReports[id] : stopReports[id][i] = "stopped")
  /\ [][\A id \in DOMAIN sessions \cup DOMAIN legacySessions :
          stopReports'[id] # stopReports[id] =>
            /\ lastCall'.ok
            /\ PositionStatus(id)' =
                 IF hasOrch /\ id \in DOMAIN sessions THEN "stopped" ELSE "completed"]_vars

C2_Witness ==
  \E id \in DOMAIN sessions :
    /\ Len(stopReports[id]) = 2
    /\ loop[id].pc = "exited"
    /\ sessions[id].status = "stopped"

\* C3: a stopSession of an unknown id or of a session in a terminal status
\* changes nothing: not the session, not the router's history and queues,
\* not the lifecycle events emitted.
C3_StopIsNoOpWhenTerminal ==
  [][\A id \in AllIds :
       /\ stopReports'[id] # stopReports[id]
       /\ (id \in DOMAIN sessions => sessions[id].status \in TerminalStatuses)
       => UNCHANGED <<sessions, messages, pendingByAgent, lifecycle>>]_vars

\* C4: a topology loop never runs more rounds than its turn budget, and once
\* it has run out (no turn failed, nobody stopped the session) the session
\* is completed.
C4_BudgetTermination ==
  \A s \in DOMAIN sessions :
    /\ loop[s].turnCount <= Budget(s)
    /\ InRound(loop[s].pc) => loop[s].turnCount < Budget(s)
    /\ (LoopEntered(s) /\ loop[s].pc = "exited" /\ stopReports[s] = << >>)
         => sessions[s].status = "completed"
    /\ (LoopEntered(s) /\ caught[s] = 0 /\ stopReports[s] = << >>)
         => sessions[s].status \in {"running", "completed"}

C4_Witness ==
  \E s \in DOMAIN sessions :
    /\ Topology(s) = "pyramid"
    /\ loop[s].pc = "exited"
    /\ loop[s].turnCount = PyramidMaxTurns
    /\ \A a \in Range(sessions[s].agents) : agents[a].turnsCompleted = PyramidMaxTurns + 1
    /\ messages = << >>
    /\ stopReports[s] = << >>
    /\ sessions[s].status = "completed"

\* C5: a session whose topology loop has exited is in a terminal status.
C5_ExitedLoopIsTerminal ==
  \A s \in DOMAIN sessions :
    ~LoopAlive(loop[s]) => sessions[s].status \in TerminalStatuses

\* C6: a turn failure in the loop is caught at most once per session; the
\* catch sets the status to error, records the description and emits the
\* error event; no turn of the session starts in that step or later; and the
\* position_invoke call that created the session has returned normally.
C6_TurnFaultCaughtOnce ==
  /\ [](\A s \in DOMAIN sessions : caught[s] <= 1)
  /\ [](lastCall.op = "position_invoke" => lastCall.ok)
  /\ [][\A s \in DOMAIN sessions :
          /\ caught'[s] # caught[s] =>
               /\ sessions'[s].status = "error"
               /\ sessions'[s].error # ""
               /\ lifecycle'[s] = Append(lifecycle[s], "error")
               /\ ~LoopAlive(loop'[s])
          /\ (caught[s] > 0 \/ caught'[s] > 0) => Started(s) = {}]_vars

C6_Witness ==
  \E s \in DOMAIN sessions :
    /\ caught[s] = 1
    /\ sessions[s].status = "error"
    /\ inflight[s] # {}

\* C7: once a session is stopped, no turn of it is started.
C7_NoTurnStartsAfterStop ==
  [][\A s \in DOMAIN sessions :
       sessions[s].status = "stopped" => Started(s) = {}]_vars

\* C8: once the elapsed time of a running session exceeds its duration cap,
\* no turn of it is started and the step that would start the next round
\* ends the session in status timeout.
C8_DurationCapEnforced ==
  [][\A s \in DOMAIN sessions :
       /\ sessions[s].config.duration > 0
       /\ now - sessions[s].startedAt > sessions[s].config.duration
       /\ sessions[s].status = "running"
       /\ loop'[s] # loop[s]
       => /\ Started(s) = {}
          /\ sessions'[s].status = "timeout"]_vars

\* C9: receive(A) returns exactly the queue of A, which is in enqueue order
\* (ascending message ids), and leaves the queue empty; a receive(A) that
\* directly follows a receive(A) returns the empty list.
C9_ReceiveDrainsExactly ==
  [][lastCall'.op = "receive" =>
       /\ lastCall'.msgs = MsgIds(Queue(pendingByAgent, lastCall'.id))
       /\ IsAscending(lastCall'.msgs)
       /\ Queue(pendingByAgent', lastCall'.id) = << >>
       /\ (lastCall.op = "receive" /\ lastCall.id = lastCall'.id)
            => lastCall'.msgs = << >>]_vars

C9_Witness ==
  /\ lastCall.op = "receive"
  /\ Len(lastCall.msgs) = 2

\* C10: an accepted send from A to "all" appends exactly one message to the
\* queue of every other actor of A's session and nothing to A's own queue,
\* for the router's send and for sessions_send alike.
C10_BroadcastFanOut ==
  [][/\ (busOps' # busOps \/ sendCalls' # sendCalls)
     /\ lastCall'.to = "all"
     /\ lastCall'.ok
     => \A b \in Range(sessions[agents[lastCall'.id].sessionId].agents) :
          Len(Queue(pendingByAgent', b)) =
            Len(Queue(pendingByAgent, b)) + (IF b = lastCall'.id THEN 0 ELSE 1)]_vars

\* A sessions_send step and the call it made.
SessionsSendStep == sendCalls' # sendCalls

Malformed(call) ==
  \/ call.id = ""
  \/ call.to = ""
  \/ call.sid = ""
  \/ ~IsValidMessageType(call.type)

WellFormed(m) ==
  /\ m.from # ""
  /\ m.to # ""
  /\ m.sessionId # ""
  /\ IsValidMessageType(m.type)

Queued == UNION {Range(pendingByAgent[a]) : a \in DOMAIN pendingByAgent}

Recorded == UNION {Range(messages[s]) : s \in DOMAIN messages}

\* C11: a sessions_send whose type is outside the allowed set, or that has
\* no sender, no recipient or no session id, answers with an error that
\* carries a description, and leaves the history, every pending queue and the
\* subscribers' log as they were; no such message is ever recorded or queued.
C11_MalformedSendRejected ==
  /\ [](\A m \in Recorded \cup Queued : WellFormed(m))
  /\ [][SessionsSendStep /\ Malformed(lastCall') =>
          /\ ~lastCall'.ok
          /\ lastCall'.status # ""
          /\ UNCHANGED <<messages, pendingByAgent, notified, nextMsg>>]_vars

C11_Witness ==
  /\ lastCall.op = "sessions_send"
  /\ lastCall.type = "NOT_A_REAL_TYPE"
  /\ ~lastCall.ok
  /\ Recorded # {}

\* C12: a sessions_send that names an existing session and is judged by its
\* type alone (it is accepted, or refused for its type) is accepted if and
\* only if its type is in the vocabulary of the session's pattern or is one
\* of the standard default types.
C12_TypeInPatternVocabulary ==
  [][/\ SessionsSendStep
     /\ lastCall'.sid \in DOMAIN sessions
     /\ lastCall'.status \in {"", "type must be one of"}
     => (lastCall'.ok <=>
           lastCall'.type \in CommunicationProtocol(sessions[lastCall'.sid].position)
                                \cup DefaultProtocolTypes)]_vars

\* C13: a sessions_send whose recipient is neither an actor of the session
\* nor "all" nor "orchestrator" is refused, and records and enqueues nothing.
C13_RecipientKnownToSession ==
  [][/\ SessionsSendStep
     /\ lastCall'.sid \in DOMAIN sessions
     /\ lastCall'.to \notin Range(sessions[lastCall'.sid].agents) \cup {"all", "orchestrator"}
     => /\ ~lastCall'.ok
        /\ UNCHANGED <<messages, pendingByAgent>>]_vars

Suffix(seq, n) ==
  IF Len(seq) > n THEN SubSeq(seq, Len(seq) - n + 1, Len(seq)) ELSE seq

\* The ids of the messages the step built, in the order it built them.
Built == [i \in 1..(nextMsg' - nextMsg) |-> nextMsg + i]

\* C14: the history of a session never holds more entries than the
\* retention cap, and every step that sends to a session leaves as its
\* history the most recent cap entries of (previous history, then the new
\* messages in send order); history(sessionId) returns exactly that.
C14_HistoryBounded ==
  /\ [](\A s \in DOMAIN messages : Len(messages[s]) <= MaxMessagesPerSession)
  /\ [][nextMsg' # nextMsg =>
          LET s == lastCall'.sid
          IN /\ MsgIds(GetSessionHistory(messages', s, 0)) =
                  Suffix(MsgIds(Get(messages, s, << >>)) \o Built, MaxMessagesPerSession)
             /\ IsAscending(MsgIds(GetSessionHistory(messages', s, 0)))]_vars

C14_Witness ==
  \E s \in DOMAIN messages :
    /\ DOMAIN messages = {s}
    /\ StopsMade = 0
    /\ nextMsg > MaxMessagesPerSession
    /\ Len(messages[s]) = MaxMessagesPerSession
    /\ messages[s][1].id = nextMsg - MaxMessagesPerSession + 1

Occurrences(seq, x) == Cardinality({i \in DOMAIN seq : seq[i] = x})

\* C15: every message a send builds is handed to the subscriber exactly
\* once, whoever the recipient is, and a message addressed to "orchestrator"
\* is added to no pending queue.
C15_NotifiedOncePerSend ==
  [][nextMsg' # nextMsg =>
       /\ \A i \in DOMAIN Built : Occurrences(notified', Built[i]) = 1
       /\ lastCall'.to = "orchestrator" => pendingByAgent' = pendingByAgent]_vars

\* The agents whose turn returned in the step, and the step in which the
\* last turn a loop waits for returns (the loop's next segment runs in it).
Returned(s) ==
  {a \in Range(sessions[s].agents) :
     agents'[a].turnsCompleted = agents[a].turnsCompleted + 1}

\* The agents that have a COMPLETE message in the session's history.
CompleteSenders(msgs, s) ==
  LET history == Get(msgs, s, << >>)
  IN {history[i].from : i \in {j \in DOMAIN history : history[j].type = "COMPLETE"}}

\* The actors taking part in the rounds of the session's loop.
Participants(s) ==
  IF Topology(s) = "duet" THEN Range(SubSeq(sessions[s].agents, 1, 2))
  ELSE Range(sessions[s].agents)

\* For a join step of a round: the participants that have signalled
\* completion, by a phrase in the response just read or by a COMPLETE message.
Signallers(s) ==
  (loop'[s].signalled \cup CompleteSenders(messages, s)) \cap Participants(s)

RoundJoin(s) ==
  /\ (Returned(s) # {} /\ loop[s].awaiting = Returned(s))
  /\ \/ Topology(s) = "duet" /\ loop[s].pc = "duetRound"
     \/ Topology(s) = "group" /\ loop[s].pc = "groupTurn"

\* C16: in a duet or group session, when a round's turn(s) return with some
\* but not all participants having signalled completion, the session is not
\* completed by that step (unless the turn budget ends with it) and, in a
\* group, the next actor of the round takes its turn.
C16_PartialSignalIgnored ==
  [][\A s \in DOMAIN sessions :
       /\ RoundJoin(s)
       /\ sessions[s].status = "running"
       /\ Signallers(s) # {}
       /\ Signallers(s) # Participants(s)
       => /\ sessions'[s].status = "completed"
               => loop[s].turnCount + 1 >= Budget(s)
          /\ (Topology(s) = "group" /\ loop[s].cursor < Len(sessions[s].agents))
               => /\ inflight'[s] = {sessions[s].agents[loop[s].cursor + 1]}
                  /\ loop'[s].turnCount = loop[s].turnCount]_vars

\* C17: in a round-robin group session (a) all initialization turns have
\* returned before a round's turn is in flight and at most one turn is in
\* flight during the rounds; (b) a turn that returns with every actor
\* having signalled completion is followed by no further turn; (c) a new
\* round starts only below the turn budget.
C17_RoundRobinOrder ==
  /\ [](\A s \in DOMAIN sessions :
          (Topology(s) = "group" /\ loop[s].pc = "groupTurn") =>
             /\ Cardinality(inflight[s]) = 1
             /\ inflight[s] = loop[s].awaiting)
  /\ [][\A s \in DOMAIN sessions : Topology(s) = "group" =>
          /\ (RoundJoin(s) /\ Signallers(s) = Participants(s))
               => inflight'[s] = {}
          /\ (loop'[s].turnCount # loop[s].turnCount /\ inflight'[s] # {})
               => loop'[s].turnCount < GroupMaxTurns]_vars

\* C19: in a duet, the round whose turns return while both actors have a
\* COMPLETE message in the history completes the session; and a completed
\* duet session has equal turn counts for its two actors and no error.
C19_DuetCompletesOnBothComplete ==
  /\ [](\A s \in DOMAIN sessions :
          (Topology(s) = "duet" /\ sessions[s].status = "completed") =>
             /\ agents[sessions[s].agents[1]].turnsCompleted =
                  agents[sessions[s].agents[2]].turnsCompleted
             /\ sessions[s].error = "")
  /\ [][\A s \in DOMAIN sessions :
          /\ RoundJoin(s)
          /\ Topology(s) = "duet"
          /\ CompleteSenders(messages, s) = Participants(s)
          => /\ sessions'[s].status = "completed"
             /\ ~LoopAlive(loop'[s])]_vars

C19_Witness ==
  \E s \in DOMAIN sessions :
    /\ Topology(s) = "duet"
    /\ sessions[s].status = "completed"
    /\ CompleteSenders(messages, s) = Participants(s)
    /\ loop[s].turnCount < DuetMaxTurns
    /\ loop[s].signalled = {}
    /\ agents[sessions[s].agents[1]].turnsCompleted >= 2

IsPrefix(p, q) == Len(p) <= Len(q) /\ SubSeq(q, 1, Len(p)) = p

PendingIds(pend, a) == MsgIds(Queue(pend, a))

\* C18: in a hierarchical session (a) no worker turn is in flight during the
\* Oracle's decomposition turn; (b) the workers' turns of a round start
\* together and the Oracle's synthesis turn is alone in flight; (c) what is
\* queued for the Oracle during a workers' round stays queued, in order, and
\* is exactly what its synthesis turn is given; (d) the session completes
\* only at the return of a synthesis turn.
C18_HierarchicalRound ==
  /\ [](\A s \in DOMAIN sessions : Topology(s) = "pyramid" =>
          /\ loop[s].pc = "oracleInit" => inflight[s] \subseteq {OracleOf(World(s))}
          /\ loop[s].pc = "oracleSynth" => inflight[s] = {OracleOf(World(s))})
  /\ [][\A s \in DOMAIN sessions : Topology(s) = "pyramid" =>
          LET oracle == OracleOf(World(s))
          IN /\ (loop[s].pc # "workerRound" /\ loop'[s].pc = "workerRound")
                  => inflight'[s] = Range(WorkersOf(World(s)))
             /\ (loop[s].pc = "workerRound" /\ loop'[s].pc = "workerRound")
                  => IsPrefix(PendingIds(pendingByAgent, oracle),
                              PendingIds(pendingByAgent', oracle))
             /\ (loop[s].pc = "workerRound" /\ loop'[s].pc = "oracleSynth")
                  => /\ turnInput'[oracle] = PendingIds(pendingByAgent, oracle)
                     /\ PendingIds(pendingByAgent', oracle) = << >>
             /\ (sessions[s].status = "running" /\ sessions'[s].status = "completed")
                  => loop[s].pc = "oracleSynth" /\ Returned(s) = {oracle}]_vars

\* C20: executeTurn is never invoked for an agent that has a turn in flight.
C20_TurnsSerialPerAgent ==
  \A s \in DOMAIN sessions : loop[s].overlapped = {}

C20_Witness ==
  \E s \in DOMAIN sessions :
    /\ Topology(s) = "pyramid"
    /\ loop[s].pc = "workerRound"
    /\ loop[s].turnCount >= 1
    /\ Cardinality(inflight[s]) = 2
    /\ \A a \in inflight[s] : agents[a].turnsCompleted >= 2

\* The number of COMPLETE entries isSessionComplete finds in the history.
CompleteCount(s) ==
  LET history == GetSessionHistory(messages, s, 0)
  IN Cardinality({i \in DOMAIN history : history[i].type = "COMPLETE"})

\* The count-based branch of isSessionComplete (no phrase in the response).
CountBranch(s) == IsSessionComplete(World(s), GetSessionHistory(messages, s, 0), FALSE)

\* C21: the count-based branch of the completion predicate is true exactly
\* when the number of COMPLETE sends made so far in the session is at least
\* the number of its actors, a send to "all" counting once.
C21_CountBranchCountsSends ==
  \A s \in DOMAIN sessions :
    CountBranch(s) <=> (sendCalls) >= Len(sessions[s].agents)

\* A step in which executeTurn called the tool handler for agent `a`.
ToolCallStep(a) ==
  /\ lastCall'.op = "tool_call"
  /\ lastCall'.id = a
  /\ \/ Len(agents'[a].toolResults) = Len(agents[a].toolResults) + 1
     \/ lastCall'.thrown /\ lastCall' # lastCall

\* The registered prefixes the name begins with.
MatchedPrefixes(tool) ==
  {p \in McpToolHandlers : Len(tool) > Len(p) /\ SubSeq(tool, 1, Len(p)) = p}

\* C22: a call of the tool handler for a name that is no intercepted tool
\* and begins with no registered prefix does not throw: it answers with an
\* error result, and the turn stays in flight with the session as it was.
C22_UnmatchedToolIsErrorResult ==
  [][\A a \in DOMAIN agents :
       /\ ToolCallStep(a)
       /\ lastCall'.tool \notin InterceptedTools
       /\ MatchedPrefixes(lastCall'.tool) = {}
       => /\ ~lastCall'.thrown
          /\ ~lastCall'.ok
          /\ a \in inflight'[agents[a].sessionId]
          /\ agents'[a].status = "thinking"
          /\ sessions' = sessions
          /\ caught' = caught]_vars

C22_Witness ==
  /\ lastCall.op = "tool_call"
  /\ lastCall.tool = <<"unknown", "tool">>
  /\ ~lastCall.ok
  /\ ~lastCall.thrown
  /\ lastCall.id \in inflight[lastCall.sid]
  /\ agents[lastCall.id].invocations = 2

\* C23: a call of the tool handler for a name that is no intercepted tool
\* and begins with a registered prefix reaches the handler registered for
\* that prefix.
C23_RoutedByPrefixMatch ==
  [][\A a \in DOMAIN agents :
       /\ ToolCallStep(a)
       /\ lastCall'.tool \notin InterceptedTools
       => \A p \in MatchedPrefixes(lastCall'.tool) : lastCall'.handler = p]_vars

\* C24: the catalog of a turn contains the gated fund transfer tool exactly
\* when the config of the agent's session has allowTransactions set.
C24_GatedToolIffAllowed ==
  \A s \in DOMAIN sessions : \A a \in inflight[s] :
    (TonWalletSend \in agents[a].tools) <=> sessions[s].config.allowTransactions

\* C25: the tool-use loop of a turn ends by itself: the number of answers
\* of the primitive that executeTurn follows with a tool call stays below
\* the limit at which the model stops the primitive from asking.
C25_ToolLoopBounded ==
  \A a \in DOMAIN agents : agents[a].invocations < MaxInvocations

\* A step made by a call of the given handler.
CallStep(op) ==
  /\ lastCall'.op = op
  /\ \/ lastCall' # lastCall
     \/ sessions' # sessions
     \/ legacySessions' # legacySessions

AllSessionIds == DOMAIN sessions \cup DOMAIN legacySessions

\* C26: position_invoke for a name that is not in the catalog answers with
\* an error result and leaves the real and the demo sessions as they were;
\* position_status and position_stop for an id of no session answer with an
\* error result and leave every session as it was.
C26_UnknownNameOrIdIsError ==
  [][/\ (CallStep("position_invoke") /\ lastCall'.position \notin DOMAIN POSITIONS)
         => /\ ~lastCall'.ok
            /\ ~lastCall'.thrown
            /\ sessions' = sessions
            /\ legacySessions' = legacySessions
     /\ ((CallStep("position_status") \/ CallStep("position_stop"))
           /\ lastCall'.id \notin AllSessionIds)
         => /\ ~lastCall'.ok
            /\ ~lastCall'.thrown
            /\ sessions' = sessions
            /\ legacySessions' = legacySessions]_vars

\* C28: a position_invoke of a catalogued position that calls createSession
\* is answered with a session whose roster is not empty, whatever the
\* position's SKILL.md is like.
C28_SkillFailureNeverBlocks ==
  [][(CallStep("position_invoke") /\ lastCall'.mode = "REAL")
       => /\ lastCall'.ok
          /\ ~lastCall'.thrown
          /\ lastCall'.id \in DOMAIN sessions'
          /\ sessions'[lastCall'.id].agents # << >>]_vars

\* C29: the id a successful position_invoke answers with is the id of no
\* session that existed before the call.
C29_SessionIdsUnique ==
  [][(CallStep("position_invoke") /\ lastCall'.ok)
       => lastCall'.id \notin AllSessionIds]_vars

\* C27: a session whose status is stopped, completed or error has no agent
\* left in the runtime and no message left in a pending queue.
C27_TerminalSessionReleased ==
  \A s \in DOMAIN sessions :
    sessions[s].status \in {"stopped", "completed", "error"}
      => ({a \in activeAgents : agents[a].sessionId = s}) = {} /\ ({m \in Queued : m.sessionId = s}) = {}

\* position_status, real session: the fields of its answer that tell how
\* and when the session ended (tokensUsed is not modelled).
StatusPayload(w) ==
  [status |-> w.sess.status, mode |-> "REAL", startedAt |-> w.sess.startedAt,
   completedAt |-> w.sess.completedAt, error |-> w.sess.error,
   agents |-> [i \in DOMAIN w.sess.agents |->
                 [id |-> w.sess.agents[i],
                  status |-> w.ag[w.sess.agents[i]].status,
                  turnsCompleted |-> w.ag[w.sess.agents[i]].turnsCompleted]]]

\* The session as it is once the turn of `a` has returned, with or without
\* a completion phrase in the response.
AfterReturn(s, a, phrase) ==
  TurnReturned(World(s), a, phrase, now, GetSessionHistory(messages, s, 0))

\* C30: where the last awaited turn of a running session, with no COMPLETE
\* count reached, completes the session both when its response signals
\* completion and when it does not (the turn budget ends with it), the two
\* status payloads differ.
C30_BudgetEndDistinguishable ==
  \A s \in DOMAIN sessions : \A a \in inflight[s] :
    /\ sessions[s].status = "running"
    /\ loop[s].awaiting = {a}
    /\ ReadsResponse(loop[s].pc)
    /\ ~CountBranch(s)
    /\ AfterReturn(s, a, TRUE).sess.status = "completed"
    /\ AfterReturn(s, a, FALSE).sess.status = "completed"
    => StatusPayload(AfterReturn(s, a, TRUE)) # StatusPayload(AfterReturn(s, a, FALSE))

\* A step in which stopSession ran for session `id`, clearSession with it.
ClearStep(id) ==
  /\ id \in DOMAIN sessions
  /\ lastCall'.op = "position_stop"
  /\ lastCall'.id = id
  /\ lastCall'.ok
  /\ Len(stopReports'[id]) = Len(stopReports[id]) + 1

OfOtherSessions(queue, id) == SelectSeq(queue, LAMBDA m : m.sessionId # id)

\* C31: clearing a session leaves it no history and no queued message, and
\* leaves the history of every other session and, in every queue, the
\* messages of the other sessions, as they were and in their order.
C31_ClearSessionFrame ==
  [][\A id \in SessionIds : ClearStep(id) =>
       /\ GetSessionHistory(messages', id, 0) = << >>
       /\ \A s \in SessionIds \ {id} :
            GetSessionHistory(messages', s, 0) = GetSessionHistory(messages, s, 0)
       /\ \A a \in DOMAIN agents :
            Queue(pendingByAgent', a) = OfOtherSessions(Queue(pendingByAgent, a), id)]_vars

\* A session was cleared after two sends; the message of the other session
\* is still queued and still in that session's history.
C31_Witness ==
  /\ lastCall.op = "position_stop"
  /\ lastCall.ok
  /\ lastCall.id \in DOMAIN sessions
  /\ nextMsg = 2
  /\ lastCall.id \notin DOMAIN messages
  /\ \E s \in DOMAIN sessions \ {lastCall.id} :
       /\ Len(GetSessionHistory(messages, s, 0)) = 1
       /\ \E a \in Range(sessions[lastCall.id].agents) :
            /\ Len(Queue(pendingByAgent, a)) = 1
            /\ Queue(pendingByAgent, a)[1].sessionId = s

\* C32: gallery_emit answers with an error result and stores no event when
\* the sessionId is missing or empty, the type is missing or not an event
\* type, or the data is missing or null; otherwise it stores exactly one
\* event.
C32_GalleryEmitValidates ==
  [][LET GalleryEmitStep ==
           /\ lastCall'.op = "gallery_emit"
           /\ lastCall' # lastCall \/ eventStore' # eventStore
         RefusedEmit(sessionId, type, data) ==
           \/ sessionId \in {Undefined, ""}
           \/ type \notin {"agent_message", "agent_action", "blockchain_tx",
                           "position_update", "system"}
           \/ data \in {Undefined, Null}
     IN GalleryEmitStep =>
          IF RefusedEmit(lastCall'.sid, lastCall'.type, lastCall'.status)
          THEN ~lastCall'.ok /\ eventStore' = eventStore
          ELSE lastCall'.ok /\ Len(eventStore') = Len(eventStore) + 1]_vars

\* C33: a connect attempt that fails with no wallet connected leaves none
\* connected; with no wallet connected ton_wallet_info reports
\* connected = false and ton_wallet_send answers with an error result and
\* sends nothing; ton_wallet_disconnect succeeds from every state and leaves
\* the disconnected state.
C33_NoWalletUnlessConnected ==
  [][LET WalletStep(op) ==
           /\ lastCall'.op = op
           /\ lastCall' # lastCall \/ state' # state
     IN /\ WalletStep("ton_wallet_connect") /\ ~state.wallet /\ ~lastCall'.ok
             => ~state'.wallet
        /\ WalletStep("ton_wallet_info") /\ ~state.wallet
             => lastCall'.ok /\ ~lastCall'.connected
        /\ WalletStep("ton_wallet_send") /\ ~state.wallet
             => ~lastCall'.ok /\ ~lastCall'.sent
        /\ WalletStep("ton_wallet_disconnect")
             => lastCall'.ok /\ state' = NoWallet]_vars

\* C34: a direct message is appended to the queue of its recipient and of no
\* other actor, with an id above every earlier one; a queue loses messages
\* only by a receive of its owner, which returns the whole queue in send
\* order and empties it, or by the clearing of the messages' session: no
\* message is lost, returned twice or returned to another actor.
C34_DirectDeliveredExactlyOnce ==
  [][LET QueueKeys ==
           DOMAIN agents \cup DOMAIN pendingByAgent \cup DOMAIN pendingByAgent'
         \* the step left the queue of `a` as it was, or appended to it one
         \* message addressed to `a` that the router built in this step
         KeptOrAppended(a) ==
           \/ Queue(pendingByAgent', a) = Queue(pendingByAgent, a)
           \/ \E m \in Range(Queue(pendingByAgent', a)) :
                /\ m.id > nextMsg
                /\ m.id <= nextMsg'
                /\ m.to = a
                /\ Queue(pendingByAgent', a) = Append(Queue(pendingByAgent, a), m)
         \* the step handed the whole queue of `a` to `a`, by a receive call
         \* or in the prompt of a turn of `a`, and left the queue empty
         Drained(a) ==
           /\ Queue(pendingByAgent', a) = << >>
           /\ \/ /\ lastCall'.op = "receive"
                 /\ lastCall'.id = a
                 /\ lastCall'.msgs = MsgIds(Queue(pendingByAgent, a))
              \/ /\ a \in DOMAIN turnInput'
                 /\ turnInput'[a] = MsgIds(Queue(pendingByAgent, a))
                 /\ \E s \in DOMAIN inflight' : a \in inflight'[s]
         \* the step cleared a session and kept the messages of the others
         Cleared(a) ==
           \E id \in DOMAIN sessions :
             /\ ClearStep(id)
             /\ Queue(pendingByAgent', a) =
                  OfOtherSessions(Queue(pendingByAgent, a), id)
     IN /\ \A a \in QueueKeys : KeptOrAppended(a) \/ Drained(a) \/ Cleared(a)
        /\ \A a \in QueueKeys :
             /\ IsAscending(MsgIds(Queue(pendingByAgent', a)))
             /\ \A m \in Range(Queue(pendingByAgent', a)) : m.id <= nextMsg'
        /\ (busOps' # busOps \/ sendCalls' # sendCalls)
             /\ lastCall'.ok /\ lastCall'.to \notin {"all", "orchestrator"}
           => /\ nextMsg' = nextMsg + 1
              /\ MsgIds(Queue(pendingByAgent', lastCall'.to)) =
                   Append(MsgIds(Queue(pendingByAgent, lastCall'.to)), nextMsg')
              /\ \A b \in QueueKeys \ {lastCall'.to} :
                   Queue(pendingByAgent', b) = Queue(pendingByAgent, b)
        /\ lastCall'.op = "receive" /\ lastCall' # lastCall
           => /\ Drained(lastCall'.id)
              /\ \A b \in QueueKeys \ {lastCall'.id} :
                   Queue(pendingByAgent', b) = Queue(pendingByAgent, b)]_vars

\* Two actors sent to the same recipient before it received: the receive
\* returned both messages, the earlier one first.
C34_Witness ==
  /\ lastCall.op = "receive"
  /\ Len(lastCall.msgs) = 2
  /\ lastCall.msgs[1] < lastCall.msgs[2]
  /\ Queue(pendingByAgent, lastCall.id) = << >>
  /\ \E m1, m2 \in Recorded :
       /\ m1.id = lastCall.msgs[1]
       /\ m2.id = lastCall.msgs[2]
       /\ m1.to = lastCall.id
       /\ m2.to = lastCall.id
       /\ m1.from # m2.from

\* The turn of `a` returned in this step.
TurnReturnStep(a) == agents'[a].turnsCompleted = agents[a].turnsCompleted + 1

\* C35: the tool calls of one answer of the primitive are executed one at a
\* time in the order of the answer, each result pushed behind the earlier
\* ones under the id of its call; the primitive is asked again only when
\* every call of its last answer has its result; a turn that returns has one
\* result per call, in the order of the calls and with their ids.
C35_ToolResultsMatchCalls ==
  [][\A a \in DOMAIN agents :
       LET agent == agents[a]
           next == agents'[a]
           \* the results gathered answer the first calls, in their order
           ResultsAnswerCalls(ag) ==
             /\ Len(ag.toolResults) + Len(ag.newToolCalls) = Len(ag.toolCalls)
             /\ \A i \in DOMAIN ag.toolResults :
                  ag.toolResults[i].toolCallId = ag.toolCalls[i]
             /\ \A i \in DOMAIN ag.newToolCalls :
                  ag.newToolCalls[i].id = ag.toolCalls[Len(ag.toolResults) + i]
       IN /\ ResultsAnswerCalls(next)
          /\ Len(next.toolResults) > Len(agent.toolResults)
               => /\ agent.newToolCalls # << >>
                  /\ Len(next.toolResults) = Len(agent.toolResults) + 1
                  /\ SubSeq(next.toolResults, 1, Len(agent.toolResults)) = agent.toolResults
                  /\ next.toolResults[Len(next.toolResults)].toolCallId =
                       Head(agent.newToolCalls).id
                  /\ lastCall'.tool = Head(agent.newToolCalls).name
                  /\ next.newToolCalls = Tail(agent.newToolCalls)
          /\ next.invocations = agent.invocations + 1
               => agent.newToolCalls = << >>
          /\ TurnReturnStep(a)
               => /\ Len(agent.toolResults) = Len(agent.toolCalls)
                  /\ \A i \in DOMAIN agent.toolCalls :
                       agent.toolResults[i].toolCallId = agent.toolCalls[i]]_vars

\* A turn that may return after two answers of the primitive with three
\* tool calls in all, some answered with an error result and some not.
C35_Witness ==
  \E s \in DOMAIN sessions : \E a \in inflight[s] :
    /\ agents[a].invocations = 2
    /\ Len(agents[a].toolCalls) = 3
    /\ Len(agents[a].toolResults) = 3
    /\ agents[a].newToolCalls = << >>
    /\ \E i, j \in 1..3 : agents[a].toolResults[i].isError
                          /\ ~agents[a].toolResults[j].isError

\* C36: the usage of every answer of the primitive reaches the usage counter
\* of its actor, when the turn returns and when it throws; a turn that
\* returns adds exactly 1 to turnsCompleted; the two counters never
\* decrease and change only in a step of the actor's own turn.
C36_UsageAccounting ==
  [][\A a \in DOMAIN agents :
       LET agent == agents[a]
           next == agents'[a]
       IN /\ next.tokensUsed >= agent.tokensUsed
          /\ next.turnsCompleted \in {agent.turnsCompleted, agent.turnsCompleted + 1}
          /\ TurnReturnStep(a)
               => next.tokensUsed = agent.tokensUsed + LastTotalTokens(agent)
          /\ (/\ ~TurnReturnStep(a)
               /\ \E s \in DOMAIN inflight : a \in inflight[s] /\ a \notin inflight'[s])
               => next.tokensUsed = agent.tokensUsed + agent.totalTokens
          /\ (next.tokensUsed # agent.tokensUsed
                \/ next.turnsCompleted # agent.turnsCompleted)
               => \E s \in DOMAIN inflight : a \in inflight[s]]_vars

\* C37: a call of the gated fund transfer tool by an actor whose session
\* has allowTransactions false or unset reaches no registered handler.
C37_GatedToolNeverDispatched ==
  [][\A a \in DOMAIN agents :
       /\ ToolCallStep(a)
       /\ lastCall'.tool \in GATED_TOOLS
       /\ ~sessions[agents[a].sessionId].config.allowTransactions
       => lastCall'.handler = << >>]_vars

\* C38: a message that sendToAgent accepted for an actor of a running
\* session is in the input of the next turn of that actor, once.
C38_UserMessageReachesNextTurn ==
  [][\A a \in DOMAIN agents :
       /\ \E s \in DOMAIN inflight' : a \in inflight'[s]
       /\ \/ TurnReturnStep(a)
          \/ \A s \in DOMAIN inflight : a \notin inflight[s]
       /\ sessions[agents[a].sessionId].status = "running"
       => \A i \in DOMAIN agents[a].pendingMessages :
            Cardinality({j \in DOMAIN turnInput'[a] :
                           turnInput'[a][j] = agents[a].pendingMessages[i].id}) = 1]_vars

\* C39: a sessions_send that names a session in a terminal status records
\* nothing in the history and appends nothing to a queue.
C39_NoSendAfterTerminal ==
  [][/\ SessionsSendStep
     /\ lastCall'.sid \in DOMAIN sessions
     /\ sessions[lastCall'.sid].status \in TerminalStatuses
     => /\ messages' = messages
        /\ pendingByAgent' = pendingByAgent
        /\ GetSessionHistory(messages', lastCall'.sid, 0) = << >>]_vars

TypeOK ==
  /\ now \in 0..MaxTime
  /\ \A s \in DOMAIN sessions :
       /\ sessions[s].status \in {"running"} \cup TerminalStatuses
       /\ inflight[s] \subseteq Range(sessions[s].agents)
       /\ loop[s].awaiting \subseteq inflight[s]

====
